---- MODULE Spec2Model ----
(***************************************************************************)
(* Claim verification and risk synthesis engine of the                     *)
(* sentiment-disinformation-tracker backend: the Risk Scorer               *)
(* (backend/risk.py), the Escalation Hook (backend/main.py, step 8.6),     *)
(* the Reliability Aggregator and the claim loop of cross_check_content    *)
(* (backend/cross_check.py).                                               *)
(*                                                                         *)
(* Numbers.  Percentages are integers (sentiment.py rounds them).          *)
(* similarity_score and source_trust_score are carried in hundredths       *)
(* (0.6 is 60).  Trust weights are carried in halves (1.5 is 3) and        *)
(* confidences in hundredths (0.85 is 85).  Python's int() truncates       *)
(* toward zero: Trunc.                                                     *)
(***************************************************************************)
EXTENDS Integers, Sequences, FiniteSets, TLC

VARIABLES
    pc,             \* position in the pass that the specification runs
    inp,            \* arguments of compute_risk: sentiment, similarity, trust, cross_check
    risk_result,    \* the dict compute_risk returned
    hist,           \* the values risk_level / final_risk_level held, in assignment order
    gemini_result,  \* what analyze_with_gemini returned
    response,       \* the risk fields of the dict analyze returns
    env,            \* credentials and query of one cross_check_content call
    claims,         \* the claims cross_check_content extracted
    official_sites, \* org name -> official url, resolved before the claim loop
    resolutions,    \* number of _find_official_website calls made so far
    platforms_searched,
    claim_no,       \* index of the claim the loop is at
    all_sources,    \* evidence gathered for the current claim
    consulted,      \* lookups and providers called for the current claim, in call order
    failures,       \* number of calls that failed (timeout, transport error) so far
    checked_claims, \* the ClaimVerdicts appended so far
    cc_result,      \* the dict cross_check_content returned
    knowledge,      \* what the knowledge source answers to one verifier call
    verified,       \* what the last verifier call returned
    extract_in,     \* arguments of one extract_claims call
    extracted,      \* the list extract_claims returned
    fetched,        \* one search hit as a provider's API returned it
    weighed         \* the hit as the provider built it and the synthesizer weighed it

riskVars == <<inp, risk_result, hist, gemini_result, response>>

ccVars == <<env, claims, official_sites, resolutions, platforms_searched, claim_no, all_sources,
            consulted, failures, checked_claims, cc_result>>

unitVars == <<knowledge, verified, extract_in, extracted, fetched, weighed>>

vars == <<pc, riskVars, ccVars, unitVars>>

(***************************************************************************)
(* Bounds                                                                  *)
(***************************************************************************)
\* longest claims list handed to compute_risk
MaxClaims == 2

\* longest verdict list handed to the reliability aggregator alone
MaxVerdicts == 4

(***************************************************************************)
(* Value spaces                                                            *)
(***************************************************************************)
Verdicts == {"likely_true", "likely_false", "disputed", "unverified"}

FalseVerdicts == {"likely_false", "disputed"}

Reliabilities == {"reliable", "questionable", "unreliable", "insufficient_data"}

Levels == {"LOW", "MEDIUM", "HIGH"}

Rank(l) == CASE l = "LOW" -> 0 [] l = "MEDIUM" -> 1 [] l = "HIGH" -> 2

SeqsUpTo(S, n) == UNION {[1..k -> S] : k \in 0..n}

\* sentiment dicts: values on both sides of the 30 / 50 / 40 thresholds and
\* percentages outside 0..100
SentimentInputs ==
    { [negative |-> -10, positive |-> 0],
      [negative |-> 30,  positive |-> 41],
      [negative |-> 30,  positive |-> 40],
      [negative |-> 31,  positive |-> 0],
      [negative |-> 50,  positive |-> 50],
      [negative |-> 51,  positive |-> 0],
      [negative |-> 150, positive |-> 0] }

\* similarity_score in hundredths, on both sides of 0.4 / 0.6 and outside [0,1]
SimilarityInputs == {-50, 40, 41, 60, 61, 200}

\* source_trust_score in hundredths, on both sides of 0.3 / 0.6 and outside [0,1]
TrustInputs == {-50, 29, 30, 59, 60, 200}

\* cross_check argument: None (present = FALSE) or a dict
NoCrossCheck == [present |-> FALSE, claims |-> <<>>, overall_reliability |-> "insufficient_data"]

CrossCheckInputs ==
    {NoCrossCheck} \cup
    [present : {TRUE}, claims : SeqsUpTo(Verdicts, MaxClaims), overall_reliability : Reliabilities]

\* verdict strings as the narrative synthesizer may write them
GeminiVerdicts ==
    {"FALSE", "MISLEADING", "UNVERIFIED", "PARTIALLY TRUE", "TRUE", "", "MOSTLY TRUE", " false "}

GeminiInputs ==
    {[present |-> FALSE, verdict |-> ""]} \cup [present : {TRUE}, verdict : GeminiVerdicts]

(***************************************************************************)
(* risk.py                                                                 *)
(***************************************************************************)
Trunc(n, d) == IF n >= 0 THEN n \div d ELSE -((-n) \div d)

Min(a, b) == IF a <= b THEN a ELSE b

Max(a, b) == IF a >= b THEN a ELSE b

\* indices of the claims whose verdict is likely_false or disputed, in claim order
FalseClaims_LikelyFalseOnly(cs) ==
    SelectSeq([i \in 1..Len(cs) |-> i], LAMBDA i : cs[i] = "likely_false")

FalseClaims(cs) ==
    SelectSeq([i \in 1..Len(cs) |-> i], LAMBDA i : cs[i] \in FalseVerdicts)

Reason(kind, claim_idx, label) == [kind |-> kind, idx |-> claim_idx, label |-> label]

\* fc["verdict"].replace("_", " ").title()
Label(v) == CASE v = "likely_false" -> "Likely False"
              [] v = "disputed" -> "Disputed"
              [] OTHER -> v

ReliabilityPoints(cc) ==
    IF cc.overall_reliability = "unreliable" THEN 15
    ELSE IF cc.overall_reliability = "questionable" THEN 8
    ELSE 0

\* min(max(score, 0), 100)
Clamp_None(score) == score

Clamp(score) == Min(Max(score, 0), 100)

_compute_misinfo_score(sentiment, similarity_score, source_trust_score, cross_check) ==
    LET cs == cross_check.claims
        ratioPts == IF cross_check.present /\ Len(cs) > 0
                    THEN Trunc(Len(FalseClaims(cs)) * 50, Len(cs))
                    ELSE 0
        relPts == IF cross_check.present THEN ReliabilityPoints(cross_check) ELSE 0
        negPts == Min(Trunc(sentiment.negative * 4, 10), 20)
        simPts == Min(Trunc(similarity_score * 25, 100), 15)
        trustPts == Min(Trunc((100 - source_trust_score) * 15, 100), 15)
        score == ratioPts + relPts + negPts + simPts + trustPts
    IN  Clamp(score)

_compute_reputation_score(sentiment, cross_check) ==
    LET claimPts == IF cross_check.present
                    THEN Min(Len(FalseClaims(cross_check.claims)) * 30, 60)
                    ELSE 0
        relPts == IF cross_check.present THEN ReliabilityPoints(cross_check) ELSE 0
        negPts == Min(Trunc(sentiment.negative * 5, 10), 25)
        score == claimPts + relPts + negPts
    IN  Clamp(score)

_score_to_confidence(misinfo_score) ==
    IF misinfo_score >= 70 THEN "High"
    ELSE IF misinfo_score >= 35 THEN "Medium"
    ELSE "Low"

\* the sentences of the summary string, as the fields that decide them
_generate_summary(reasons, risk_level, misinfo_score, reputation_score, cross_check) ==
    LET nFalse == IF cross_check.present THEN Len(FalseClaims(cross_check.claims)) ELSE 0
        checked == IF cross_check.present THEN Len(cross_check.claims) ELSE 0
    IN  [ gemini |-> "",
          level |-> risk_level,
          misinfo |-> misinfo_score,
          reputation |-> reputation_score,
          flagged |-> nFalse,
          consistent |-> (checked > 0 /\ nFalse = 0),
          key |-> IF Len(reasons) > 1 THEN <<reasons[1]>> ELSE <<>>,
          closing |-> risk_level ]

\* risk.py 148-159: false / disputed claims force HIGH, one reason per claim
CrossCheckOverride(cross_check) ==
    LET fcs == IF cross_check.present THEN FalseClaims(cross_check.claims) ELSE <<>>
    IN  IF Len(fcs) > 0
        THEN [ risk_level |-> "HIGH",
               reasons |-> [k \in 1..Len(fcs) |->
                              Reason("claim", fcs[k], Label(cross_check.claims[fcs[k]]))] ]
        ELSE [ risk_level |-> "LOW", reasons |-> <<>> ]

ReliabilityOverride_NoReason(cross_check, st) ==
    IF cross_check.present /\ st.risk_level # "HIGH"
          /\ cross_check.overall_reliability = "unreliable"
    THEN [ st EXCEPT !.risk_level = "HIGH" ]
    ELSE st

\* risk.py 161-167: the overall label, looked at only when not already HIGH
ReliabilityOverride(cross_check, st) ==
    IF cross_check.present /\ st.risk_level # "HIGH"
    THEN IF cross_check.overall_reliability = "unreliable"
         THEN [ risk_level |-> "HIGH",
                reasons |-> Append(st.reasons, Reason("unreliable", 0, "")) ]
         ELSE IF cross_check.overall_reliability = "questionable"
         THEN [ st EXCEPT !.reasons = Append(st.reasons, Reason("questionable", 0, "")) ]
         ELSE st
    ELSE st

Opt(cond, r) == IF cond THEN <<r>> ELSE <<>>

\* negative_pct > 50
HighNegative_Inclusive(negative_pct) == negative_pct >= 50

HighNegative(negative_pct) == negative_pct > 50

HighReasons(sentiment, similarity_score, source_trust_score) ==
    Opt(HighNegative(sentiment.negative), Reason("high_negative", 0, ""))
    \o Opt(similarity_score > 60, Reason("high_similarity", 0, ""))
    \o Opt(source_trust_score < 30, Reason("high_trust", 0, ""))

MediumReasons(sentiment, similarity_score, source_trust_score) ==
    Opt(sentiment.negative > 30, Reason("medium_negative", 0, ""))
    \o Opt(similarity_score > 40, Reason("medium_similarity", 0, ""))
    \o Opt(source_trust_score < 60, Reason("medium_trust", 0, ""))

\* if risk_level != "HIGH": the thresholds are evaluated
ThresholdsApply_Always(risk_level) == TRUE

ThresholdsApply(risk_level) == risk_level # "HIGH"

\* risk.py 172-217: the numeric thresholds, skipped when already HIGH
ThresholdRules(sentiment, similarity_score, source_trust_score, st) ==
    LET high == HighReasons(sentiment, similarity_score, source_trust_score)
        medium == MediumReasons(sentiment, similarity_score, source_trust_score)
    IN  IF ~ThresholdsApply(st.risk_level) THEN st
        ELSE IF Len(high) > 0
        THEN [ risk_level |-> "HIGH", reasons |-> st.reasons \o high ]
        ELSE IF Len(medium) > 0
        THEN [ risk_level |-> "MEDIUM", reasons |-> st.reasons \o medium ]
        ELSE [ st EXCEPT !.reasons =
                 st.reasons \o <<Reason("credible", 0, "")>>
                 \o Opt(sentiment.positive > 40, Reason("positive", 0, "")) ]

\* the values risk_level takes through compute_risk, in assignment order
LevelTrace(sentiment, similarity_score, source_trust_score, cross_check) ==
    LET s1 == CrossCheckOverride(cross_check)
        s2 == ReliabilityOverride(cross_check, s1)
        s3 == ThresholdRules(sentiment, similarity_score, source_trust_score, s2)
    IN  <<"LOW", s1.risk_level, s2.risk_level, s3.risk_level>>

compute_risk(sentiment, similarity_score, source_trust_score, cross_check) ==
    LET s1 == CrossCheckOverride(cross_check)
        s2 == ReliabilityOverride(cross_check, s1)
        s3 == ThresholdRules(sentiment, similarity_score, source_trust_score, s2)
        misinfo_score == _compute_misinfo_score(sentiment, similarity_score,
                                                source_trust_score, cross_check)
        reputation_score == _compute_reputation_score(sentiment, cross_check)
        rep_level == IF reputation_score >= 60 THEN "HIGH"
                     ELSE IF reputation_score >= 30 THEN "MEDIUM"
                     ELSE "LOW"
    IN  [ risk_level |-> s3.risk_level,
          reasons |-> s3.reasons,
          misinformation_score |-> misinfo_score,
          reputation_risk_score |-> reputation_score,
          reputation_risk_level |-> rep_level,
          confidence |-> _score_to_confidence(misinfo_score),
          summary |-> _generate_summary(s3.reasons, s3.risk_level, misinfo_score,
                                        reputation_score, cross_check) ]

(***************************************************************************)
(* main.py, step 8.6: the Escalation Hook                                  *)
(***************************************************************************)
\* (gemini_result.get("verdict") or "").upper().strip()
UpperStrip(raw) == IF raw = " false " THEN "FALSE" ELSE raw

\* gv in ("FALSE", "MISLEADING")
ForcesHigh_FalseOnly(gv) == gv = "FALSE"

ForcesHigh(gv) == gv \in {"FALSE", "MISLEADING"}

RaisesLow(gv) == gv \in {"UNVERIFIED", "PARTIALLY TRUE"}

\* if final_risk_level == "LOW": only LOW is raised to MEDIUM
MediumGuard_Dropped(final_risk_level) == TRUE

MediumGuard(final_risk_level) == final_risk_level = "LOW"

\* if final_risk_level != risk_result["risk_level"]: the summary is rewritten
SummaryRewritten_Always(final_risk_level, base_level) == TRUE

SummaryRewritten(final_risk_level, base_level) == final_risk_level # base_level

EscalationHook(rr, gem) ==
    LET gv == UpperStrip(gem.verdict)
        escalateHigh == gem.present /\ ForcesHigh(gv) /\ rr.risk_level # "HIGH"
        escalateMedium == gem.present /\ ~ForcesHigh(gv) /\ RaisesLow(gv)
                          /\ MediumGuard(rr.risk_level)
        final_risk_level == IF escalateHigh THEN "HIGH"
                            ELSE IF escalateMedium THEN "MEDIUM"
                            ELSE rr.risk_level
    IN  [ risk_level |-> final_risk_level,
          reasons |-> IF escalateHigh \/ escalateMedium
                      THEN <<Reason("gemini", 0, gv)>> \o rr.reasons
                      ELSE rr.reasons,
          misinformation_score |-> rr.misinformation_score,
          reputation_risk_score |-> rr.reputation_risk_score,
          reputation_risk_level |-> rr.reputation_risk_level,
          confidence |-> rr.confidence,
          summary |-> IF gem.present /\ SummaryRewritten(final_risk_level, rr.risk_level)
                      THEN [rr.summary EXCEPT !.gemini = gv]
                      ELSE rr.summary ]

(***************************************************************************)
(* cross_check.py: the Reliability Aggregator (step 3 of                   *)
(* cross_check_content)                                                    *)
(***************************************************************************)
\* verdicts.count(v)
Count(verdicts, v) == Len(SelectSeq(verdicts, LAMBDA x : x = v))

\* false_count > total / 2, the division being Python's true division
MoreThanHalf_Inclusive(count, total) == 2 * count >= total

MoreThanHalf(count, total) == 2 * count > total

overall_reliability(verdicts) ==
    LET false_count == Count(verdicts, "likely_false") + Count(verdicts, "disputed")
        true_count == Count(verdicts, "likely_true")
        total == Len(verdicts)
    IN  IF total = 0 THEN "insufficient_data"
        ELSE IF MoreThanHalf(false_count, total) THEN "unreliable"
        ELSE IF false_count > 0 THEN "questionable"
        ELSE IF MoreThanHalf(true_count, total) THEN "reliable"
        ELSE "insufficient_data"

VerdictsOf(checked) == [i \in 1..Len(checked) |-> checked[i].verdict]

\* the dict cross_check_content returns
CrossCheckResult(checked, platforms) ==
    [ returned |-> TRUE,
      claims_checked |-> Len(checked),
      claims |-> checked,
      platforms_searched |-> platforms,
      overall_reliability |-> overall_reliability(VerdictsOf(checked)) ]

NoCCResult ==
    [ returned |-> FALSE, claims_checked |-> 0, claims |-> <<>>,
      platforms_searched |-> <<>>, overall_reliability |-> "insufficient_data" ]

ClaimVerdict(verdict, confidence, corrected_info, sources) ==
    [ verdict |-> verdict, confidence |-> confidence,
      corrected_info |-> corrected_info, sources |-> sources ]

NoEnv == [has_api |-> FALSE, has_newsapi |-> FALSE]

\* no verifier call and no extract_claims call is under way
UnitIdle ==
    /\ knowledge = <<>>
    /\ verified = <<>>
    /\ extract_in = <<>>
    /\ extracted = <<>>
    /\ fetched = <<>>
    /\ weighed = <<>>

(***************************************************************************)
(* cross_check.py: evidence items, trust weights, the Verdict Synthesizer  *)
(***************************************************************************)
\* One search result.  kw is what the lower-cased snippet + title contains:
\* "contra" a contradiction keyword, "support" a support keyword, "both" one
\* of each, "none" neither.  trust_tier is the "trust_tier" key the provider
\* set (-1: the key is absent) and url_tier what _get_source_tier gives for
\* the url.
Item(platform, title, kw, trust_tier, url_tier) ==
    [ platform |-> platform, title |-> title, kw |-> kw,
      trust_tier |-> trust_tier, url_tier |-> url_tier ]

\* src.get("trust_tier", _get_source_tier(url))
TierOf(src) == IF src.trust_tier >= 0 THEN src.trust_tier ELSE src.url_tier

\* _get_trust_weight, in halves
_get_trust_weight(tier) ==
    CASE tier = 3 -> 6 [] tier = 2 -> 4 [] tier = 1 -> 3 [] OTHER -> 2

\* sorted(sources, key=tier, reverse=True): stable, highest tier first
SortByTier(sources) ==
    SelectSeq(sources, LAMBDA x : TierOf(x) = 3)
    \o SelectSeq(sources, LAMBDA x : TierOf(x) = 2)
    \o SelectSeq(sources, LAMBDA x : TierOf(x) = 1)
    \o SelectSeq(sources, LAMBDA x : TierOf(x) \notin {1, 2, 3})

RECURSIVE WeightSum(_, _)
\* sum of the weights of the sources whose kw is in kws
WeightSum(sources, kws) ==
    IF sources = <<>> THEN 0
    ELSE (IF Head(sources).kw \in kws THEN _get_trust_weight(TierOf(Head(sources))) ELSE 0)
         + WeightSum(Tail(sources), kws)

\* the first loop (1089-1093): weights of the items holding a contradiction marker
ContradictionScore(sources) == WeightSum(sources, {"contra", "both"})

SupportScore_FirstTwo(sources) ==
    WeightSum(SubSeq(sources, 1, Min(2, Len(sources))), {"support", "both"})

\* the second loop (1095-1099): weights of the items holding a support marker
SupportScore(sources) == WeightSum(sources, {"support", "both"})

Round2_Down(n, d) == (100 * n) \div d

\* round(n / d, 2) in hundredths, ties to even
Round2(n, d) ==
    LET q == (100 * n) \div d
        r == (100 * n) % d
    IN  IF 2 * r < d THEN q
        ELSE IF 2 * r > d THEN q + 1
        ELSE IF q % 2 = 0 THEN q ELSE q + 1

\* min(x, 1.0), in hundredths
CapConfidence(c) == Min(c, 100)

Prefix(seq, n) == SubSeq(seq, 1, Min(n, Len(seq)))

\* the stance the synthesizer tags a source with
StanceOf(src) ==
    IF src.kw \in {"contra", "both"} THEN "contradicts"
    ELSE IF src.kw = "support" THEN "supports"
    ELSE "neutral"

\* one sentence of corrected_info: what it says and about whom
Fact(kind, about) == [kind |-> kind, about |-> about]

SourceEntry(platform, title, stance) ==
    [platform |-> platform, title |-> title, stance |-> stance]

SynthVerdict_Mixed(contradiction_score, support_score) ==
    IF contradiction_score + support_score = 0 THEN "unverified"
    ELSE IF contradiction_score > support_score THEN "likely_false"
    ELSE IF support_score > contradiction_score THEN "likely_true"
    ELSE "mixed"

\* the verdict ladder of the synthesizer (1119-1131)
SynthVerdict(contradiction_score, support_score) ==
    IF contradiction_score + support_score = 0 THEN "unverified"
    ELSE IF contradiction_score > support_score THEN "likely_false"
    ELSE IF support_score > contradiction_score THEN "likely_true"
    ELSE "disputed"

_analyze_claim_against_sources(sources) ==
    IF sources = <<>>
    THEN ClaimVerdict("unverified", 0, <<>>, <<>>)
    ELSE
      LET sources_sorted == SortByTier(sources)
          contradiction_score == ContradictionScore(sources_sorted)
          support_score == SupportScore(sources_sorted)
          total == contradiction_score + support_score
          verdict == SynthVerdict(contradiction_score, support_score)
          confidence ==
              IF total = 0 THEN 30
              ELSE IF contradiction_score > support_score
              THEN CapConfidence(Round2(contradiction_score, Max(total, 2)))
              ELSE IF support_score > contradiction_score
              THEN CapConfidence(Round2(support_score, Max(total, 2)))
              ELSE 50
          relevant_sources ==
              [i \in 1..Len(sources_sorted) |->
                  SourceEntry(sources_sorted[i].platform, sources_sorted[i].title,
                              StanceOf(sources_sorted[i]))]
          correction_snippets ==
              SelectSeq(sources_sorted, LAMBDA src : src.kw \in {"contra", "both"})
          corrected_info ==
              IF verdict \in {"likely_false", "disputed"}
              THEN [i \in 1..Min(Len(correction_snippets), 2) |->
                       Fact("snippet", correction_snippets[i].title)]
              ELSE <<>>
      IN  ClaimVerdict(verdict, confidence, corrected_info, Prefix(relevant_sources, 8))

\* _mock_cross_check([claim])[0]
_mock_cross_check ==
    ClaimVerdict("unverified", 40, <<>>,
                 << SourceEntry("Google Search", "Related", "neutral"),
                    SourceEntry("Wikipedia", "Background", "neutral") >>)

(***************************************************************************)
(* cross_check.py: the Knowledge Verifier                                  *)
(***************************************************************************)
\* What the knowledge source answers for one person:
\*   search   _search_wikipedia(name): "fail", "empty" or "hit"
\*   extract  _get_wikipedia_extract: "fail" (gives ""), "plain", "mentions"
\*            (names the other person), "hoax" (holds a contradiction keyword)
\*   death    _get_wikidata_death_date: "fail" (gives None), "none", "date"
\*   spouse   _get_wikidata_spouse: "fail" (gives []), "none", "match" (the
\*            list matches every other person named), "nomatch"
Failed(outcome) == IF outcome = "fail" THEN 1 ELSE 0

ChecksDeath_UnlessRelationship(claim) == claim.is_death /\ ~claim.is_relationship

\* 782: the death branch comes first, whatever other vocabulary the claim has
ChecksDeath(claim) == claim.is_death

\* corrected_info_parts and real_facts one person adds, and the calls that
\* failed for them
PersonCheck(claim, name, nOthers, k) ==
    IF k.search # "hit"
    THEN [found |-> FALSE, corrections |-> <<>>, facts |-> <<>>, nfail |-> Failed(k.search)]
    ELSE IF ChecksDeath(claim)
    THEN [ found |-> TRUE,
           corrections |-> IF k.death = "date" THEN <<>> ELSE <<Fact("not_dead", name)>>,
           facts |-> IF k.death = "date" THEN <<Fact("died_on", name)>> ELSE <<>>,
           nfail |-> Failed(k.extract) + Failed(k.death) ]
    ELSE IF claim.is_relationship
    THEN [ found |-> TRUE,
           corrections |->
               IF k.spouse \in {"match", "nomatch"}
               THEN IF nOthers > 0 /\ k.spouse = "nomatch"
                    THEN <<Fact("not_married", name)>> ELSE <<>>
               ELSE IF nOthers > 0 /\ k.extract # "mentions"
                    THEN <<Fact("no_link", name)>> ELSE <<>>,
           facts |-> IF k.spouse \in {"match", "nomatch"}
                     THEN <<Fact("spouses", name)>> ELSE <<>>,
           nfail |-> Failed(k.extract) + Failed(k.spouse) ]
    ELSE [ found |-> TRUE,
           corrections |-> IF k.extract = "hoax" THEN <<Fact("article_says", name)>> ELSE <<>>,
           facts |-> <<>>,
           nfail |-> Failed(k.extract) ]

RECURSIVE SumOver(_, _)
SumOver(f, n) == IF n = 0 THEN 0 ELSE f[n] + SumOver(f, n - 1)

RECURSIVE Concat(_, _)
Concat(f, n) == IF n = 0 THEN <<>> ELSE Concat(f, n - 1) \o f[n]

KnowledgeLabel_NoFacts(contradicts_claim, real_facts) ==
    IF contradicts_claim THEN "likely_false" ELSE "unverified"

\* the verdict ladder of both verifiers (846-858, 1016-1028)
KnowledgeLabel(contradicts_claim, real_facts) ==
    IF contradicts_claim THEN "likely_false"
    ELSE IF real_facts THEN "likely_true"
    ELSE "unverified"

\* the result both verifiers build from corrected_info_parts and real_facts
\* (842-870, 1013-1040)
KnowledgeVerdict(names, found, corrected_info_parts, real_facts, nfail) ==
    LET hits == SelectSeq([i \in 1..Len(names) |-> i], LAMBDA i : found[i])
        verdict == KnowledgeLabel(corrected_info_parts # <<>>, real_facts # <<>>)
        confidence == IF verdict = "likely_false" THEN 85
                      ELSE IF verdict = "likely_true" THEN 70
                      ELSE 30
        stance == IF verdict = "likely_false" THEN "contradicts"
                  ELSE IF verdict = "likely_true" THEN "supports"
                  ELSE "neutral"
        entries == [j \in 1..Len(hits) |-> SourceEntry("Wikipedia", names[hits[j]], stance)]
        corrected_info == IF corrected_info_parts # <<>> THEN corrected_info_parts
                          ELSE real_facts
    IN  [ none |-> hits = <<>>,
          nfail |-> nfail,
          result |-> ClaimVerdict(verdict, confidence, corrected_info, Prefix(entries, 8)) ]

\* know[i] is what the knowledge source answers for person_names[i]
_verify_person_claim(claim, person_names, know) ==
    LET n == Len(person_names)
        chk == [i \in 1..n |-> PersonCheck(claim, person_names[i], n - 1, know[i])]
    IN  KnowledgeVerdict(person_names,
                         [i \in 1..n |-> chk[i].found],
                         Concat([i \in 1..n |-> chk[i].corrections], n),
                         Concat([i \in 1..n |-> chk[i].facts], n),
                         SumOver([i \in 1..n |-> chk[i].nfail], n))

\* What the knowledge source answers for one organization:
\*   search   the three _search_wikipedia attempts ("<org> company",
\*            "<org> organization", "<org>"), each "fail", "empty" or "hit";
\*            the first hit ends them
\*   extract  as for a person; "mentions" names every person of the claim
\*   leaders  _get_wikidata_leaders: "fail" (gives []), "none", "match" (every
\*            person of the claim is a listed leader), "nomatch"
OrgFound(k) == \E a \in 1..Len(k.search) : k.search[a] = "hit"

OrgCheck(org, k) ==
    LET searchFails == Cardinality({a \in 1..Len(k.search) : k.search[a] = "fail"})
    IN  IF ~OrgFound(k)
        THEN [found |-> FALSE, corrections |-> <<>>, facts |-> <<>>, nfail |-> searchFails]
        ELSE [ found |-> TRUE,
               corrections |->
                   IF k.leaders \in {"match", "nomatch"}
                   THEN IF k.leaders = "nomatch" THEN <<Fact("not_leader", org)>> ELSE <<>>
                   ELSE IF k.extract # "mentions"
                        THEN <<Fact("no_role_link", org)>> ELSE <<>>,
               facts |-> IF k.leaders \in {"match", "nomatch"}
                         THEN <<Fact("leaders", org)>> ELSE <<>>,
               nfail |-> searchFails + Failed(k.extract) + Failed(k.leaders) ]

\* know[i] is what the knowledge source answers for org_names[i]
_verify_org_role_claim(claim, person_names, org_names, know) ==
    LET n == Len(org_names)
        chk == [i \in 1..n |-> OrgCheck(org_names[i], know[i])]
    IN  IF person_names = <<>> \/ org_names = <<>> \/ ~claim.is_role
        THEN [none |-> TRUE, nfail |-> 0, result |-> _mock_cross_check]
        ELSE KnowledgeVerdict(org_names,
                              [i \in 1..n |-> chk[i].found],
                              Concat([i \in 1..n |-> chk[i].corrections], n),
                              Concat([i \in 1..n |-> chk[i].facts], n),
                              SumOver([i \in 1..n |-> chk[i].nfail], n))

(***************************************************************************)
(* One analysis pass over the risk stages: compute_risk, then the hook     *)
(***************************************************************************)
NoResult ==
    [ risk_level |-> "LOW", reasons |-> <<>>, misinformation_score |-> 0,
      reputation_risk_score |-> 0, reputation_risk_level |-> "LOW",
      confidence |-> "Low",
      summary |-> [ gemini |-> "", level |-> "LOW", misinfo |-> 0, reputation |-> 0,
                    flagged |-> 0, consistent |-> FALSE, key |-> <<>>, closing |-> "LOW" ] ]

NoGemini == [present |-> FALSE, verdict |-> ""]

InitRisk ==
    /\ UnitIdle
    /\ pc = "risk"
    /\ inp \in [ sentiment : SentimentInputs, similarity_score : SimilarityInputs,
                 source_trust_score : TrustInputs, cross_check : CrossCheckInputs ]
    /\ risk_result = NoResult
    /\ hist = <<>>
    /\ gemini_result = NoGemini
    /\ response = NoResult
    /\ env = NoEnv
    /\ claims = <<>>
    /\ official_sites = <<>>
    /\ resolutions = 0
    /\ platforms_searched = <<>>
    /\ claim_no = 0
    /\ all_sources = <<>>
    /\ consulted = <<>>
    /\ failures = 0
    /\ checked_claims = <<>>
    /\ cc_result = NoCCResult

\* main.py step 7
ComputeRisk ==
    /\ pc = "risk"
    /\ risk_result' = compute_risk(inp.sentiment, inp.similarity_score,
                                   inp.source_trust_score, inp.cross_check)
    /\ hist' = LevelTrace(inp.sentiment, inp.similarity_score,
                          inp.source_trust_score, inp.cross_check)
    /\ pc' = "gemini"
    /\ UNCHANGED <<unitVars, inp, gemini_result, response, ccVars>>

\* main.py steps 8.5, 8.6 and 9
Escalate ==
    /\ pc = "gemini"
    /\ \E g \in GeminiInputs :
          /\ gemini_result' = g
          /\ response' = EscalationHook(risk_result, g)
          /\ hist' = Append(hist, EscalationHook(risk_result, g).risk_level)
    /\ pc' = "done"
    /\ UNCHANGED <<unitVars, inp, risk_result, ccVars>>

NextRisk == ComputeRisk \/ Escalate

SpecRisk == InitRisk /\ [][NextRisk]_vars

(***************************************************************************)
(* The Reliability Aggregator alone, over every verdict list               *)
(***************************************************************************)
NoRiskInput ==
    [ sentiment |-> [negative |-> 0, positive |-> 0], similarity_score |-> 0,
      source_trust_score |-> 100, cross_check |-> NoCrossCheck ]

InitAgg ==
    /\ UnitIdle
    /\ pc = "aggregate"
    /\ checked_claims \in
          { [i \in 1..Len(vs) |-> ClaimVerdict(vs[i], 30, <<>>, <<>>)] :
              vs \in SeqsUpTo(Verdicts, MaxVerdicts) }
    /\ inp = NoRiskInput
    /\ risk_result = NoResult
    /\ hist = <<>>
    /\ gemini_result = NoGemini
    /\ response = NoResult
    /\ env = NoEnv
    /\ claims = <<>>
    /\ official_sites = <<>>
    /\ resolutions = 0
    /\ platforms_searched = <<"Wikipedia", "Wikidata">>
    /\ claim_no = 0
    /\ all_sources = <<>>
    /\ consulted = <<>>
    /\ failures = 0
    /\ cc_result = NoCCResult

\* cross_check.py 1338-1360
Aggregate ==
    /\ pc = "aggregate"
    /\ cc_result' = CrossCheckResult(checked_claims, platforms_searched)
    /\ pc' = "cc_done"
    /\ UNCHANGED <<unitVars, riskVars, env, claims, official_sites, resolutions, platforms_searched, claim_no,
                   all_sources, consulted, failures, checked_claims>>

NextAgg == Aggregate

SpecAgg == InitAgg /\ [][NextAgg]_vars

(***************************************************************************)
(* cross_check_content: the claim loop                                     *)
(***************************************************************************)
\* What the extractors find in a text: person names, organization names and
\* which vocabularies its words meet (_DEATH_WORDS is part of _EVENT_WORDS).
Text(persons, orgs, rel, death, event, role) ==
    [ persons |-> persons, orgs |-> orgs, is_relationship |-> rel,
      is_death |-> death, is_event |-> event \/ death, is_role |-> role ]

\* _is_relationship_or_event_claim
_is_relationship_or_event_claim(t) == t.is_relationship \/ t.is_event \/ t.is_role

ClaimTexts ==
    { Text(<<>>, <<>>, FALSE, FALSE, FALSE, FALSE),          \* no name, no vocabulary
      Text(<<"A">>, <<>>, FALSE, FALSE, FALSE, FALSE),       \* a name, no vocabulary
      Text(<<"A">>, <<>>, FALSE, TRUE, TRUE, FALSE),         \* "A died"
      Text(<<"A", "B">>, <<>>, TRUE, FALSE, FALSE, FALSE),   \* "A married B"
      Text(<<"A">>, <<>>, FALSE, FALSE, TRUE, FALSE),        \* "A was arrested"
      Text(<<"A">>, <<"Org">>, FALSE, FALSE, FALSE, TRUE) }  \* "A is CEO of Org"

QueryTexts ==
    { Text(<<>>, <<>>, FALSE, FALSE, FALSE, FALSE),
      Text(<<"A">>, <<"Org">>, FALSE, FALSE, FALSE, FALSE),
      Text(<<"A", "B">>, <<>>, TRUE, FALSE, FALSE, FALSE) }

\* query_is_claim (1217)
QueryIsClaim(q) == q.persons # <<>> /\ _is_relationship_or_event_claim(q)

CurrentClaim == claims[claim_no]

\* person_names of the loop body (1247-1249)
PersonNames(c) ==
    IF c.persons = <<>> /\ QueryIsClaim(env.query) THEN env.query.persons ELSE c.persons

\* claim_orgs of the loop body (1252-1254)
ClaimOrgs(c) == IF c.orgs = <<>> THEN env.query.orgs ELSE c.orgs

\* effective_person_names (1281)
EffectivePersonNames(c) ==
    IF PersonNames(c) # <<>> THEN PersonNames(c) ELSE env.query.persons

VerifierApplies(c) == PersonNames(c) # <<>> /\ _is_relationship_or_event_claim(c)

OrgRoleApplies(c) == VerifierApplies(c) /\ ClaimOrgs(c) # <<>> /\ c.is_role

\* the stage the loop body enters after a provider stage, by the credentials
AfterWikipedia_EnoughEvidence ==
    IF env.has_api /\ Len(all_sources) < 2 THEN "serper" ELSE "synthesize"

AfterWikipedia == IF env.has_api THEN "serper" ELSE "synthesize"

AfterOfficial == IF env.has_api THEN "govt_sites" ELSE "wikipedia"

AfterNewsapi ==
    IF env.has_api /\ official_sites # <<>> THEN "official_site" ELSE AfterOfficial

AfterPersonPages == IF env.has_newsapi THEN "newsapi" ELSE AfterNewsapi

GatherStart(c) ==
    IF EffectivePersonNames(c) # <<>> THEN "person_wikipedia" ELSE AfterPersonPages

FirstStage_PersonFirst(c) ==
    IF VerifierApplies(c) THEN "person" ELSE GatherStart(c)

FirstStage(c) ==
    IF OrgRoleApplies(c) THEN "org_role"
    ELSE IF VerifierApplies(c) THEN "person"
    ELSE GatherStart(c)

\* a call's try/except turns a timeout or transport error into an empty result
Absorbed_OnlySearch(call) == call \in {"wikipedia", "serper", "newsapi"}

Absorbed(call) == TRUE

\* the stage entered when a call of the stage failed
OrRaised(call, nfail, stage) == IF nfail > 0 /\ ~Absorbed(call) THEN "raised" ELSE stage

\* what a provider returns: a failure and an empty answer both give []
Outcome(status, results) == [status |-> status, results |-> results]

Returned(o) == IF o.status = "fail" THEN <<>> ELSE o.results

Outcomes(menu) == {Outcome("fail", <<>>), Outcome("ok", <<>>)} \cup {Outcome("ok", r) : r \in menu}

AddPlatform(platforms, name) ==
    IF \E i \in 1..Len(platforms) : platforms[i] = name THEN platforms
    ELSE Append(platforms, name)

Titles(sources) == {sources[i].title : i \in 1..Len(sources)}

\* result menus of the providers
NewsapiMenu ==
    { <<Item("NewsAPI", "N", "contra", 0, 0)>>,
      <<Item("NewsAPI", "N", "support", 2, 2)>>,
      <<Item("NewsAPI", "A", "both", 1, 1)>> }

OfficialMenu == { <<Item("Official Site", "O", "support", 3, 0)>> }

GovtMenu == { <<Item("Government/Official", "G", "contra", 3, 3)>> }

FactCheckMenu == { <<Item("Fact-Check Site", "F", "contra", -1, 2)>> }

WikipediaMenu ==
    { <<Item("Wikipedia", "A", "none", -1, 2)>>,
      <<Item("Wikipedia", "W", "support", -1, 2)>> }

SerperGeneralMenu == { <<Item("Google Search", "S", "support", -1, 0)>> }

SerperNewsMenu == { <<Item("Google News", "S", "none", -1, 0)>> }

PersonKnowledge(c) ==
    IF c.is_death
    THEN [search : {"fail", "empty", "hit"}, extract : {"fail", "plain"},
          death : {"fail", "none", "date"}, spouse : {"none"}]
    ELSE IF c.is_relationship
    THEN [search : {"fail", "empty", "hit"}, extract : {"fail", "plain", "mentions"},
          death : {"none"}, spouse : {"fail", "none", "match", "nomatch"}]
    ELSE [search : {"fail", "empty", "hit"}, extract : {"fail", "plain", "hoax"},
          death : {"none"}, spouse : {"none"}]

OrgKnowledge ==
    [ search : { <<"hit">>, <<"empty", "hit">>, <<"fail", "empty", "hit">>,
                 <<"empty", "empty", "empty">>, <<"fail", "fail", "fail">> },
      extract : {"fail", "plain", "mentions"},
      leaders : {"fail", "none", "match", "nomatch"} ]

Conclusive_AnyResult(r) == ~r.none

\* 1265, 1271: the verifier returned a result and it is not "unverified"
Conclusive(r) == ~r.none /\ r.result.verdict # "unverified"

\* the calls made so far for the claim at hand, with one more
Consult(calls) ==
    IF pc = FirstStage(CurrentClaim) THEN calls ELSE consulted \o calls

\* all_sources of the claim at hand: emptied at 1276, before the first provider
Gathered == IF pc = GatherStart(CurrentClaim) THEN <<>> ELSE all_sources

\* appending a ClaimVerdict and moving to the next claim or to step 3
FinishClaim(result) ==
    /\ checked_claims' = Append(checked_claims, result)
    /\ IF claim_no < Len(claims)
       THEN /\ claim_no' = claim_no + 1
            /\ pc' = FirstStage(claims[claim_no + 1])
       ELSE /\ claim_no' = claim_no
            /\ pc' = "aggregate"

ResolutionCalls_PerClaim(org_names) == Len(org_names) * Len(claims)

\* 1235-1236: one _find_official_website call per organization of the query
ResolutionCalls(org_names) == Len(org_names)

\* 1233-1242: _find_official_website for every organization of the query
ResolveSites ==
    /\ pc = "resolve"
    /\ \E site \in [1..Len(env.query.orgs) -> {"fail", "none", "url"}] :
          LET n == Len(env.query.orgs)
              found == SelectSeq(env.query.orgs,
                                 LAMBDA o : \E i \in 1..n : env.query.orgs[i] = o /\ site[i] = "url")
              nfail == Cardinality({i \in 1..n : site[i] = "fail"})
          IN  /\ official_sites' = found
              /\ resolutions' = resolutions + ResolutionCalls(env.query.orgs)
              /\ platforms_searched' =
                    IF found # <<>> THEN AddPlatform(platforms_searched, "Official Sites")
                    ELSE platforms_searched
              /\ failures' = failures + nfail
              /\ consulted' = <<>>
              /\ claim_no' = 1
              /\ pc' = OrRaised("official_website", nfail, FirstStage(claims[1]))
    /\ UNCHANGED <<unitVars, riskVars, env, claims, all_sources, checked_claims, cc_result>>

\* 1259-1267: organization-role verification
OrgRoleVerify ==
    /\ pc = "org_role"
    /\ LET c == CurrentClaim
           orgs == ClaimOrgs(c)
       IN  \E know \in [1..Len(orgs) -> OrgKnowledge] :
              LET r == _verify_org_role_claim(c, PersonNames(c), orgs, know)
              IN  /\ failures' = failures + r.nfail
                  /\ verified' = [none |-> r.none, result |-> r.result]
                  /\ IF r.nfail > 0 /\ ~Absorbed("knowledge")
                     THEN /\ pc' = "raised"
                          /\ UNCHANGED <<checked_claims, claim_no>>
                     ELSE IF Conclusive(r)
                     THEN FinishClaim(r.result)
                     ELSE /\ pc' = "person"
                          /\ UNCHANGED <<checked_claims, claim_no>>
    /\ consulted' = Consult(<<"org_role">>)
    /\ UNCHANGED <<riskVars, knowledge, extract_in, extracted, fetched, weighed, env, claims, official_sites, resolutions,
                   platforms_searched, all_sources, cc_result>>

\* 1269-1273: person verification
PersonVerify ==
    /\ pc = "person"
    /\ LET c == CurrentClaim
           names == PersonNames(c)
       IN  \E know \in [1..Len(names) -> PersonKnowledge(c)] :
              LET r == _verify_person_claim(c, names, know)
              IN  /\ failures' = failures + r.nfail
                  /\ verified' = [none |-> r.none, result |-> r.result]
                  /\ IF r.nfail > 0 /\ ~Absorbed("knowledge")
                     THEN /\ pc' = "raised"
                          /\ UNCHANGED <<checked_claims, claim_no>>
                     ELSE IF Conclusive(r)
                     THEN FinishClaim(r.result)
                     ELSE /\ pc' = GatherStart(c)
                          /\ UNCHANGED <<checked_claims, claim_no>>
    /\ consulted' = Consult(<<"person">>)
    /\ UNCHANGED <<riskVars, knowledge, extract_in, extracted, fetched, weighed, env, claims, official_sites, resolutions,
                   platforms_searched, all_sources, cc_result>>

\* 1278-1285: _search_person_wikipedia, one article per name found
SearchPersonPages ==
    /\ pc = "person_wikipedia"
    /\ LET names == EffectivePersonNames(CurrentClaim)
       IN  \E hit \in [1..Len(names) -> {"fail", "empty", "hit", "hit_noextract"}] :
              LET found == SelectSeq([i \in 1..Len(names) |-> i],
                                     LAMBDA i : hit[i] \in {"hit", "hit_noextract"})
                  nfail == Cardinality({i \in 1..Len(names) :
                                          hit[i] \in {"fail", "hit_noextract"}})
              IN  /\ all_sources' =
                        Gathered \o
                        [j \in 1..Len(found) |-> Item("Wikipedia", names[found[j]], "none", -1, 2)]
                  /\ failures' = failures + nfail
                  /\ pc' = OrRaised("wikipedia", nfail, AfterPersonPages)
    /\ consulted' = Consult(<<"person_wikipedia">>)
    /\ UNCHANGED <<unitVars, riskVars, env, claims, official_sites, resolutions, platforms_searched, claim_no,
                   checked_claims, cc_result>>

\* 1287-1293: NewsAPI
SearchNewsapi ==
    /\ pc = "newsapi"
    /\ \E o \in Outcomes(NewsapiMenu) :
          /\ all_sources' = Gathered \o Returned(o)
          /\ platforms_searched' = IF Returned(o) # <<>>
                                   THEN AddPlatform(platforms_searched, "NewsAPI")
                                   ELSE platforms_searched
          /\ failures' = failures + Failed(o.status)
          /\ pc' = OrRaised("newsapi", Failed(o.status), AfterNewsapi)
    /\ consulted' = Consult(<<"newsapi">>)
    /\ UNCHANGED <<unitVars, riskVars, env, claims, official_sites, resolutions, claim_no, checked_claims, cc_result>>

\* 1295-1300: one site-restricted search per resolved official site
SearchOfficialSites ==
    /\ pc = "official_site"
    /\ \E o \in [1..Len(official_sites) -> Outcomes(OfficialMenu)] :
          LET n == Len(official_sites)
              nfail == Cardinality({i \in 1..n : o[i].status = "fail"})
          IN  /\ all_sources' = Gathered \o Concat([i \in 1..n |-> Returned(o[i])], n)
              /\ failures' = failures + nfail
              /\ pc' = OrRaised("serper", nfail, AfterOfficial)
    /\ consulted' = Consult(<<"official_site">>)
    /\ UNCHANGED <<unitVars, riskVars, env, claims, official_sites, resolutions, platforms_searched, claim_no,
                   checked_claims, cc_result>>

\* 1302-1308: government / regulatory sites
SearchGovtSites ==
    /\ pc = "govt_sites"
    /\ \E o \in Outcomes(GovtMenu) :
          /\ all_sources' = Gathered \o Returned(o)
          /\ platforms_searched' = IF Returned(o) # <<>>
                                   THEN AddPlatform(platforms_searched, "Government Sites")
                                   ELSE platforms_searched
          /\ failures' = failures + Failed(o.status)
          /\ pc' = OrRaised("serper", Failed(o.status), "fact_check_sites")
    /\ consulted' = Consult(<<"govt_sites">>)
    /\ UNCHANGED <<unitVars, riskVars, env, claims, official_sites, resolutions, claim_no, checked_claims, cc_result>>

\* 1310-1315: fact-check sites
SearchFactCheckSites ==
    /\ pc = "fact_check_sites"
    /\ \E o \in Outcomes(FactCheckMenu) :
          /\ all_sources' = Gathered \o Returned(o)
          /\ failures' = failures + Failed(o.status)
          /\ pc' = OrRaised("serper", Failed(o.status), "wikipedia")
    /\ platforms_searched' = AddPlatform(platforms_searched, "Fact-Check Sites")
    /\ consulted' = Consult(<<"fact_check_sites">>)
    /\ UNCHANGED <<unitVars, riskVars, env, claims, official_sites, resolutions, claim_no, checked_claims, cc_result>>

\* 1317-1322: generic Wikipedia search, minus the titles already collected
SearchWikipedia ==
    /\ pc = "wikipedia"
    /\ \E o \in Outcomes(WikipediaMenu) :
          /\ all_sources' =
                Gathered \o
                SelectSeq(Returned(o), LAMBDA r : r.title \notin Titles(Gathered))
          /\ failures' = failures + Failed(o.status)
          /\ pc' = OrRaised("wikipedia", Failed(o.status), AfterWikipedia)
    /\ consulted' = Consult(<<"wikipedia">>)
    /\ UNCHANGED <<unitVars, riskVars, env, claims, official_sites, resolutions, platforms_searched, claim_no,
                   checked_claims, cc_result>>

\* 1324-1329: general search and news search
SearchSerper ==
    /\ pc = "serper"
    /\ \E g \in Outcomes(SerperGeneralMenu), n \in Outcomes(SerperNewsMenu) :
          /\ all_sources' = Gathered \o Returned(g) \o Returned(n)
          /\ failures' = failures + Failed(g.status) + Failed(n.status)
          /\ pc' = OrRaised("serper", Failed(g.status) + Failed(n.status), "synthesize")
    /\ platforms_searched' =
          AddPlatform(AddPlatform(platforms_searched, "Google Search"), "Google News")
    /\ consulted' = Consult(<<"serper_general", "serper_news">>)
    /\ UNCHANGED <<unitVars, riskVars, env, claims, official_sites, resolutions, claim_no, checked_claims, cc_result>>

\* 1331-1336: the synthesizer, or the mock entry when nothing was gathered
Synthesize ==
    /\ pc = "synthesize"
    /\ FinishClaim(IF all_sources # <<>>
                   THEN _analyze_claim_against_sources(all_sources)
                   ELSE _mock_cross_check)
    /\ consulted' = Consult(<<"verdict">>)
    /\ verified' = <<>>
    /\ UNCHANGED <<riskVars, knowledge, extract_in, extracted, fetched, weighed, env, claims, official_sites, resolutions,
                   platforms_searched, all_sources, failures, cc_result>>

\* sentiment, similarity and trust handed to compute_risk with the cross-check
RiskProbes ==
    { [sentiment |-> [negative |-> 0, positive |-> 50], similarity_score |-> 0,
       source_trust_score |-> 100],
      [sentiment |-> [negative |-> 60, positive |-> 0], similarity_score |-> 70,
       source_trust_score |-> 20] }

\* main.py 143: compute_risk on the cross-check result
ScoreCrossCheck ==
    /\ pc = "cc_done"
    /\ \E probe \in RiskProbes :
          LET cross_check == [ present |-> TRUE,
                               claims |-> VerdictsOf(cc_result.claims),
                               overall_reliability |-> cc_result.overall_reliability ]
          IN  /\ inp' = [ sentiment |-> probe.sentiment,
                          similarity_score |-> probe.similarity_score,
                          source_trust_score |-> probe.source_trust_score,
                          cross_check |-> cross_check ]
              /\ risk_result' = compute_risk(probe.sentiment, probe.similarity_score,
                                             probe.source_trust_score, cross_check)
              /\ hist' = LevelTrace(probe.sentiment, probe.similarity_score,
                                    probe.source_trust_score, cross_check)
    /\ pc' = "scored"
    /\ UNCHANGED <<unitVars, gemini_result, response, ccVars>>

\* longest claims list of one cross_check_content call
MaxExtracted == 2

\* Every provider configuration with one claim; several claims without the
\* search credentials (Wikipedia and Wikidata alone are consulted).
InitCC ==
    /\ UnitIdle
    /\ pc = "resolve"
    /\ env \in [has_api : BOOLEAN, has_newsapi : BOOLEAN, query : QueryTexts]
    /\ IF QueryIsClaim(env.query)
       THEN claims = <<env.query>>
       ELSE claims \in UNION {[1..k -> ClaimTexts] :
               k \in 1..(IF env.has_api \/ env.has_newsapi THEN 1 ELSE MaxExtracted)}
    /\ official_sites = <<>>
    /\ resolutions = 0
    /\ platforms_searched = <<"Wikipedia", "Wikidata">>
    /\ claim_no = 0
    /\ all_sources = <<>>
    /\ consulted = <<>>
    /\ failures = 0
    /\ checked_claims = <<>>
    /\ cc_result = NoCCResult
    /\ inp = NoRiskInput
    /\ risk_result = NoResult
    /\ hist = <<>>
    /\ gemini_result = NoGemini
    /\ response = NoResult

NextCC ==
    \/ ResolveSites
    \/ OrgRoleVerify
    \/ PersonVerify
    \/ SearchPersonPages
    \/ SearchNewsapi
    \/ SearchOfficialSites
    \/ SearchGovtSites
    \/ SearchFactCheckSites
    \/ SearchWikipedia
    \/ SearchSerper
    \/ Synthesize
    \/ Aggregate
    \/ ScoreCrossCheck

SpecCC == InitCC /\ [][NextCC]_vars

(***************************************************************************)
(* cross_check.py: extract_claims                                          *)
(***************************************************************************)
\* most sentences in a text, and largest max_claims
MaxSentences == 3

MaxCap == 2

\* A sentence as extract_claims sees it: its length after strip(), what the
\* indicator patterns and the name bonus add up to, and set(lower().split()).
Sentence(len, score, words) == [len |-> len, score |-> score, words |-> words]

SentenceMenu ==
    { Sentence(14, 3, {11, 12, 13}),      \* one character short
      Sentence(15, 2, {11, 12, 13}),      \* shortest and lowest-scoring claim
      Sentence(120, 2, 1..10),
      Sentence(120, 5, 1..7),             \* shares 7 of 10 words with the one above
      Sentence(120, 2, 1..8),             \* shares 8 of 10
      Sentence(120, 1, 20..29),           \* scores too low
      Sentence(300, 2, 30..39),           \* longest claim
      Sentence(301, 4, 30..39) }          \* one character long

\* len(text) for sentences joined by single spaces
RECURSIVE TextLen(_)
TextLen(sentences) ==
    IF sentences = <<>> THEN 0
    ELSE Head(sentences).len + (IF Len(sentences) > 1 THEN 1 ELSE 0) + TextLen(Tail(sentences))

RECURSIVE TextWords(_)
TextWords(sentences) ==
    IF sentences = <<>> THEN {} ELSE Head(sentences).words \cup TextWords(Tail(sentences))

\* 373-380: the short-input fast path
FastPath(text) ==
    /\ TextLen(text.sentences) < 300
    /\ \/ text.names >= 1 /\ text.vocab
       \/ text.names >= 2

\* 399-411
Qualifies(sentence) == sentence.len >= 15 /\ sentence.len <= 300 /\ sentence.score >= 2

Overlaps_Above80(words_a, words_b) ==
    10 * Cardinality(words_a \cap words_b) > 8 * Max(Cardinality(words_a \cup words_b), 1)

\* 419-422: overlap > 0.7
Overlaps(words_a, words_b) ==
    10 * Cardinality(words_a \cap words_b) > 7 * Max(Cardinality(words_a \cup words_b), 1)

\* 415-426: greedy, first occurrence kept
RECURSIVE Dedup(_, _)
Dedup(unique_claims, rest) ==
    IF rest = <<>> THEN unique_claims
    ELSE IF \E i \in 1..Len(unique_claims) : Overlaps(Head(rest).words, unique_claims[i].words)
         THEN Dedup(unique_claims, Tail(rest))
         ELSE Dedup(Append(unique_claims, Head(rest)), Tail(rest))

FallbackLen_Whole(len) == len

\* 430: len(text[:300])
FallbackLen(len) == Min(len, 300)

\* a returned claim: its length and its word set
extract_claims(text, max_claims) ==
    LET whole == TextLen(text.sentences)
    IN  IF FastPath(text)
        THEN << [len |-> whole, words |-> TextWords(text.sentences)] >>
        ELSE LET unique_claims == Dedup(<<>>, SelectSeq(text.sentences, Qualifies))
                 kept == [i \in 1..Len(unique_claims) |->
                            [len |-> unique_claims[i].len, words |-> unique_claims[i].words]]
             IN  IF kept = <<>>
                 THEN Prefix(<< [len |-> FallbackLen(whole),
                                 words |-> TextWords(text.sentences)] >>, max_claims)
                 ELSE Prefix(kept, max_claims)

InitExtract ==
    /\ pc = "extract"
    /\ extract_in \in
          [ text : [ sentences : SeqsUpTo(SentenceMenu, MaxSentences) \ {<<>>},
                     names : 0..2, vocab : BOOLEAN ],
            max_claims : 1..MaxCap ]
    /\ extracted = <<>>
    /\ fetched = <<>>
    /\ weighed = <<>>
    /\ knowledge = <<>>
    /\ verified = <<>>
    /\ inp = NoRiskInput
    /\ risk_result = NoResult
    /\ hist = <<>>
    /\ gemini_result = NoGemini
    /\ response = NoResult
    /\ env = NoEnv
    /\ claims = <<>>
    /\ official_sites = <<>>
    /\ resolutions = 0
    /\ platforms_searched = <<>>
    /\ claim_no = 0
    /\ all_sources = <<>>
    /\ consulted = <<>>
    /\ failures = 0
    /\ checked_claims = <<>>
    /\ cc_result = NoCCResult

\* cross_check.py 1223
ExtractClaims ==
    /\ pc = "extract"
    /\ extracted' = extract_claims(extract_in.text, extract_in.max_claims)
    /\ pc' = "extracted"
    /\ UNCHANGED <<riskVars, ccVars, knowledge, verified, extract_in, fetched, weighed>>

NextExtract == ExtractClaims

SpecExtract == InitExtract /\ [][NextExtract]_vars

(***************************************************************************)
(* One call of the Verdict Synthesizer                                     *)
(***************************************************************************)
\* longest evidence list handed to the synthesizer
MaxEvidence == 3

\* an item of every marker kind at every tier, the tier set by the provider
\* or read off the url
EvidenceItems ==
    { Item("P", "T", kw, t, t) : kw \in {"contra", "support", "both", "none"}, t \in 0..3 }
    \cup { Item("P", "T", kw, -1, 2) : kw \in {"contra", "support", "both", "none"} }

InitSynth ==
    /\ pc = "analyze_sources"
    /\ all_sources \in SeqsUpTo(EvidenceItems, MaxEvidence)
    /\ checked_claims = <<>>
    /\ UnitIdle
    /\ inp = NoRiskInput
    /\ risk_result = NoResult
    /\ hist = <<>>
    /\ gemini_result = NoGemini
    /\ response = NoResult
    /\ env = NoEnv
    /\ claims = <<>>
    /\ official_sites = <<>>
    /\ resolutions = 0
    /\ platforms_searched = <<>>
    /\ claim_no = 0
    /\ consulted = <<>>
    /\ failures = 0
    /\ cc_result = NoCCResult

\* cross_check.py 1332
AnalyzeSources ==
    /\ pc = "analyze_sources"
    /\ checked_claims' = <<_analyze_claim_against_sources(all_sources)>>
    /\ pc' = "analyzed"
    /\ UNCHANGED <<unitVars, riskVars, env, claims, official_sites, resolutions, platforms_searched,
                   claim_no, all_sources, consulted, failures, cc_result>>

NextSynth == AnalyzeSources

SpecSynth == InitSynth /\ [][NextSynth]_vars

(***************************************************************************)
(* One call of a knowledge verifier                                        *)
(***************************************************************************)
\* claims that reach _verify_person_claim: a name and event vocabulary
PersonClaimTexts ==
    { Text(<<"A">>, <<>>, FALSE, TRUE, TRUE, FALSE),          \* "A died"
      Text(<<"A", "B">>, <<>>, FALSE, TRUE, TRUE, FALSE),     \* "A and B died"
      Text(<<"A", "B">>, <<>>, TRUE, TRUE, TRUE, FALSE),      \* "A's wife B died"
      Text(<<"A", "B">>, <<>>, TRUE, FALSE, FALSE, FALSE),    \* "A married B"
      Text(<<"A">>, <<>>, TRUE, FALSE, FALSE, FALSE),         \* "A got married"
      Text(<<"A">>, <<>>, FALSE, FALSE, TRUE, FALSE) }        \* "A was arrested"

\* claims that reach _verify_org_role_claim
OrgClaimTexts ==
    { Text(<<"A">>, <<"Org">>, FALSE, FALSE, FALSE, TRUE),          \* "A is CEO of Org"
      Text(<<"A">>, <<"Org", "Org2">>, FALSE, FALSE, FALSE, TRUE) } \* "A heads Org and Org2"

\* every answer the knowledge source can give for one person of the claim
PersonAnswers(c) ==
    IF c.is_death /\ c.is_relationship
    THEN [search : {"fail", "empty", "hit"}, extract : {"fail", "plain", "mentions"},
          death : {"fail", "none", "date"}, spouse : {"fail", "none", "match", "nomatch"}]
    ELSE PersonKnowledge(c)

InitKV ==
    /\ pc = "verify"
    /\ \/ \E c \in PersonClaimTexts :
             knowledge \in [kind : {"person"}, claim : {c},
                            know : [1..Len(c.persons) -> PersonAnswers(c)]]
       \/ \E c \in OrgClaimTexts :
             knowledge \in [kind : {"org_role"}, claim : {c},
                            know : [1..Len(c.orgs) -> OrgKnowledge]]
    /\ verified = <<>>
    /\ extract_in = <<>>
    /\ extracted = <<>>
    /\ fetched = <<>>
    /\ weighed = <<>>
    /\ inp = NoRiskInput
    /\ risk_result = NoResult
    /\ hist = <<>>
    /\ gemini_result = NoGemini
    /\ response = NoResult
    /\ env = NoEnv
    /\ claims = <<>>
    /\ official_sites = <<>>
    /\ resolutions = 0
    /\ platforms_searched = <<>>
    /\ claim_no = 0
    /\ all_sources = <<>>
    /\ consulted = <<>>
    /\ failures = 0
    /\ checked_claims = <<>>
    /\ cc_result = NoCCResult

\* cross_check.py 1270
VerifyPerson ==
    /\ pc = "verify"
    /\ knowledge.kind = "person"
    /\ verified' = _verify_person_claim(knowledge.claim, knowledge.claim.persons,
                                        knowledge.know)
    /\ pc' = "verified"
    /\ UNCHANGED <<riskVars, ccVars, knowledge, extract_in, extracted, fetched, weighed>>

\* cross_check.py 1264
VerifyOrgRole ==
    /\ pc = "verify"
    /\ knowledge.kind = "org_role"
    /\ verified' = _verify_org_role_claim(knowledge.claim, knowledge.claim.persons,
                                          knowledge.claim.orgs, knowledge.know)
    /\ pc' = "verified"
    /\ UNCHANGED <<riskVars, ccVars, knowledge, extract_in, extracted, fetched, weighed>>

NextKV == VerifyPerson \/ VerifyOrgRole

SpecKV == InitKV /\ [][NextKV]_vars

(***************************************************************************)
(* Claims about the risk stages (checked under SpecRisk)                   *)
(***************************************************************************)
BaseReturned == pc \in {"gemini", "done"}

HookDone == pc = "done"

ClaimsIn == inp.cross_check.claims

\* number of likely_false / disputed claims in the cross_check argument
NumFalse ==
    IF inp.cross_check.present
    THEN Cardinality({i \in 1..Len(ClaimsIn) : ClaimsIn[i] \in {"likely_false", "disputed"}})
    ELSE 0

\* the cross-check signals forced HIGH before the thresholds were looked at
ForcedHigh == Len(hist) >= 3 /\ hist[3] = "HIGH"

\* C1: over compute_risk followed by the Escalation Hook the level never moves
\* down in LOW < MEDIUM < HIGH: each assignment is at least the level held
\* before it, so the returned level is at least every intermediate level.
C1_MonotoneEscalation ==
    /\ \A i \in 1..(Len(hist) - 1) : Rank(hist[i]) <= Rank(hist[i + 1])
    /\ HookDone => \A i \in 1..Len(hist) : Rank(hist[i]) <= Rank(response.risk_level)
    /\ BaseReturned => hist[4] = risk_result.risk_level

C1_Witness ==
    /\ HookDone
    /\ hist = <<"LOW", "LOW", "LOW", "MEDIUM", "HIGH">>

\* C2: the hook's table.  FALSE / MISLEADING give HIGH; UNVERIFIED / PARTIALLY
\* TRUE give MEDIUM from LOW and leave MEDIUM and HIGH; TRUE, no signal and any
\* other verdict give the base level.  The verdict is read upper-cased and
\* stripped, as the code reads it.
C2_HookTable ==
    HookDone =>
        LET base == risk_result.risk_level
            v == gemini_result.verdict
        IN  /\ (gemini_result.present /\ v \in {"FALSE", "MISLEADING", " false "})
                  => response.risk_level = "HIGH"
            /\ (gemini_result.present /\ v \in {"UNVERIFIED", "PARTIALLY TRUE"})
                  => response.risk_level = (IF base = "LOW" THEN "MEDIUM" ELSE base)
            /\ (~gemini_result.present \/ v \in {"TRUE", "", "MOSTLY TRUE"})
                  => response.risk_level = base

C2_Witness ==
    /\ HookDone
    /\ gemini_result.present
    /\ gemini_result.verdict = "MISLEADING"
    /\ risk_result.risk_level = "MEDIUM"
    /\ response.risk_level = "HIGH"

\* C3: when the hook leaves the level alone, reasons and summary are those
\* compute_risk returned; and for every verdict the two scores, the reputation
\* level and the confidence label are compute_risk's.
C3_HookFrame ==
    HookDone =>
        /\ response.risk_level = risk_result.risk_level
              => /\ response.reasons = risk_result.reasons
                 /\ response.summary = risk_result.summary
        /\ response.misinformation_score = risk_result.misinformation_score
        /\ response.reputation_risk_score = risk_result.reputation_risk_score
        /\ response.reputation_risk_level = risk_result.reputation_risk_level
        /\ response.confidence = risk_result.confidence

C3_Witness ==
    /\ HookDone
    /\ gemini_result.present
    /\ gemini_result.verdict = "UNVERIFIED"
    /\ risk_result.risk_level = "HIGH"
    /\ response = risk_result
    /\ Len(response.reasons) = 2

\* C4: a likely_false or disputed claim in the cross-check forces HIGH whatever
\* the other inputs are, and the reasons are exactly one per such claim, in
\* claim order, with no sentiment, similarity or trust reason.
C4_FalseClaimForcesHigh ==
    (BaseReturned /\ NumFalse > 0) =>
        LET rs == risk_result.reasons
        IN  /\ risk_result.risk_level = "HIGH"
            /\ Len(rs) = NumFalse
            /\ \A k \in 1..Len(rs) :
                  /\ rs[k].kind = "claim"
                  /\ rs[k].idx \in 1..Len(ClaimsIn)
                  /\ ClaimsIn[rs[k].idx] \in {"likely_false", "disputed"}
                  /\ rs[k].label = (IF ClaimsIn[rs[k].idx] = "disputed"
                                    THEN "Disputed" ELSE "Likely False")
            /\ \A k \in 1..(Len(rs) - 1) : rs[k].idx < rs[k + 1].idx

C4_Witness ==
    /\ BaseReturned
    /\ ClaimsIn = <<"disputed", "likely_false">>
    /\ inp.sentiment.negative = 51
    /\ inp.similarity_score = 61
    /\ inp.source_trust_score = 29
    /\ Len(risk_result.reasons) = 2

\* the level the thresholds give, written from the numbers
ThresholdLevel ==
    IF inp.sentiment.negative > 50 \/ inp.similarity_score > 60
       \/ inp.source_trust_score < 30
    THEN "HIGH"
    ELSE IF inp.sentiment.negative > 30 \/ inp.similarity_score > 40
            \/ inp.source_trust_score < 60
    THEN "MEDIUM"
    ELSE "LOW"

HighKinds == {"high_negative", "high_similarity", "high_trust"}

MediumKinds == {"medium_negative", "medium_similarity", "medium_trust"}

ReasonKinds(rs) == {rs[k].kind : k \in 1..Len(rs)}

FiredHighKinds ==
    {k \in HighKinds :
        \/ k = "high_negative" /\ inp.sentiment.negative > 50
        \/ k = "high_similarity" /\ inp.similarity_score > 60
        \/ k = "high_trust" /\ inp.source_trust_score < 30}

C7_ScoresInRange ==
    BaseReturned =>
        /\ risk_result.misinformation_score \in 0..100
        /\ risk_result.reputation_risk_score \in 0..100

\* contributions of 50 + 15 + 20 + 15 + 15 = 115, returned as 100
C7_Witness ==
    /\ BaseReturned
    /\ NumFalse = Len(ClaimsIn)
    /\ NumFalse > 0
    /\ inp.cross_check.overall_reliability = "unreliable"
    /\ inp.sentiment.negative = 150
    /\ inp.similarity_score = 200
    /\ inp.source_trust_score = -50
    /\ risk_result.misinformation_score = 100

(***************************************************************************)
(* Claims about the Reliability Aggregator (checked under SpecAgg)         *)
(***************************************************************************)
Aggregated == pc = "cc_done"

NumVerdict(V) == Cardinality({i \in 1..Len(checked_claims) : checked_claims[i].verdict \in V})

\* the label the table of section 4.6 gives for the counts
TableLabel(false_count, true_count, total) ==
    IF total = 0 THEN "insufficient_data"
    ELSE IF 2 * false_count > total THEN "unreliable"
    ELSE IF false_count > 0 THEN "questionable"
    ELSE IF 2 * true_count > total THEN "reliable"
    ELSE "insufficient_data"

Reorderings(n) == {f \in [1..n -> 1..n] : \A i, j \in 1..n : f[i] = f[j] => i = j}

\* C6: overall_reliability is the table of the counts false_count = #likely_false
\* + #disputed, true_count = #likely_true and total, and every reordering of the
\* claims gets the same label.
C6_ReliabilityTable ==
    Aggregated =>
        /\ cc_result.overall_reliability =
              TableLabel(NumVerdict({"likely_false", "disputed"}),
                         NumVerdict({"likely_true"}), Len(checked_claims))
        /\ \A f \in Reorderings(Len(checked_claims)) :
              overall_reliability([i \in 1..Len(checked_claims) |->
                                     checked_claims[f[i]].verdict])
                 = cc_result.overall_reliability

\* exactly half of the claims false: questionable, not unreliable
C6_Witness ==
    /\ Aggregated
    /\ Len(checked_claims) = 4
    /\ NumVerdict({"likely_false"}) = 1
    /\ NumVerdict({"disputed"}) = 1
    /\ cc_result.overall_reliability = "questionable"

(***************************************************************************)
(* Claims about cross_check_content (checked under SpecCC)                 *)
(***************************************************************************)
WellFormedVerdict(c) == c.verdict \in Verdicts /\ c.confidence \in 0..100

\* lines 1331-1336 have just produced the verdict of claim Len(checked_claims)
JustJudged == consulted # <<>> /\ consulted[Len(consulted)] = "verdict"

ResultReturned == pc \in {"cc_done", "scored"}

\* C8: every ClaimVerdict of the result has one of the four verdict labels and a
\* confidence between 0 and 1 (0..100 hundredths), whether organization-role
\* verification, person verification, the synthesizer or the no-source fallback
\* produced it, and so does the synthesizer's verdict on every evidence list
\* gathered on the way, the empty list included.
C8_VerdictsWellFormed ==
    /\ \A i \in 1..Len(checked_claims) : WellFormedVerdict(checked_claims[i])
    /\ cc_result.returned =>
          \A i \in 1..Len(cc_result.claims) : WellFormedVerdict(cc_result.claims[i])
    /\ WellFormedVerdict(_analyze_claim_against_sources(all_sources))
    /\ WellFormedVerdict(_analyze_claim_against_sources(<<>>))

\* evidence of tier 0 alone, all of it supporting: likely_true with confidence 1
C8_Witness ==
    /\ pc = "cc_done"
    /\ JustJudged
    /\ all_sources # <<>>
    /\ \A i \in 1..Len(all_sources) : TierOf(all_sources[i]) = 0
    /\ cc_result.claims[cc_result.claims_checked].verdict = "likely_true"
    /\ cc_result.claims[cc_result.claims_checked].confidence = 100

\* C9: a claim for which the providers gathered no evidence at all is returned
\* by cross_check_content as unverified with confidence 0 and no sources.
C9_NoEvidenceUnverified ==
    (pc = "cc_done" /\ JustJudged /\ all_sources = <<>>) =>
        LET r == cc_result.claims[cc_result.claims_checked]
        IN  r.verdict = "unverified" /\ r.confidence = 0 /\ r.sources = <<>>

\* the calls of the gather phase that the credentials allow, in source order
ExpectedCalls(c) ==
    (IF EffectivePersonNames(c) # <<>> THEN <<"person_wikipedia">> ELSE <<>>)
    \o (IF env.has_newsapi THEN <<"newsapi">> ELSE <<>>)
    \o (IF env.has_api /\ official_sites # <<>> THEN <<"official_site">> ELSE <<>>)
    \o (IF env.has_api THEN <<"govt_sites", "fact_check_sites">> ELSE <<>>)
    \o <<"wikipedia">>
    \o (IF env.has_api THEN <<"serper_general", "serper_news">> ELSE <<>>)
    \o <<"verdict">>

GatherCalls == SelectSeq(consulted, LAMBDA call : call \notin {"org_role", "person"})

\* C10: whatever subset of the provider calls and knowledge lookups fails, no
\* failure leaves cross_check_content as an exception, every provider the
\* credentials allow is still consulted for the claim, the result carries one
\* well-formed verdict per claim, a reliability label and the platform list,
\* and compute_risk returns a risk level and its scores for that result.
C10_FailuresAbsorbed ==
    /\ pc # "raised"
    /\ JustJudged => GatherCalls = ExpectedCalls(claims[Len(checked_claims)])
    /\ ResultReturned =>
          /\ cc_result.returned
          /\ cc_result.claims_checked = Len(claims)
          /\ Len(cc_result.claims) = Len(claims)
          /\ \A i \in 1..Len(cc_result.claims) : cc_result.claims[i].verdict \in Verdicts
          /\ cc_result.overall_reliability \in Reliabilities
          /\ Len(cc_result.platforms_searched) >= 2
    /\ pc = "scored" =>
          /\ risk_result.risk_level \in Levels
          /\ risk_result.reputation_risk_level \in Levels
          /\ risk_result.misinformation_score \in 0..100
          /\ risk_result.reputation_risk_score \in 0..100
          /\ risk_result.reasons # <<>>

\* every call of a fully credentialed run failed, and the result is complete
C10_Witness ==
    /\ pc = "scored"
    /\ env.has_api /\ env.has_newsapi
    /\ official_sites # <<>>
    /\ Len(GatherCalls) = 9
    /\ failures >= 8
    /\ all_sources = <<>>
    /\ cc_result.claims_checked = Len(claims)
    /\ risk_result.risk_level \in Levels

(***************************************************************************)
(* Claims about the knowledge verifiers (checked under SpecKV)             *)
(***************************************************************************)
Verified == pc = "verified"

PersonCall == knowledge.kind = "person"

\* the persons or organizations of the call, and those the search resolved
Entities == IF PersonCall THEN knowledge.claim.persons ELSE knowledge.claim.orgs

Resolved ==
    {i \in 1..Len(Entities) :
        IF PersonCall THEN knowledge.know[i].search = "hit" ELSE OrgFound(knowledge.know[i])}

\* the typed-fact lookup made for a resolved entity
FactLookup(i) ==
    IF ~PersonCall THEN knowledge.know[i].leaders
    ELSE IF knowledge.claim.is_death THEN knowledge.know[i].death
    ELSE IF knowledge.claim.is_relationship THEN knowledge.know[i].spouse
    ELSE "none"

\* C11: when every fact lookup made for the resolved entities failed (date of
\* death, spouse list, leaders, and the article extract with them), the
\* verifier has no evidence from the provider and returns no definitive
\* verdict: in particular not likely_false with confidence 0.85.
C11_FailedLookupNotDefinitive ==
    ( /\ Verified
      /\ Resolved # {}
      /\ \A i \in Resolved : FactLookup(i) = "fail" /\ knowledge.know[i].extract = "fail" )
    => verified.result.verdict = "unverified"

Stances(result) == {result.sources[i].stance : i \in 1..Len(result.sources)}

\* C12: for a relationship claim naming A and B, a spouse list for A that
\* contains B gives likely_true with confidence 0.7 and every entry tagged
\* supports, whatever the knowledge source answers for B.
C12_SpouseMatchSupports ==
    ( /\ Verified
      /\ PersonCall
      /\ knowledge.claim.is_relationship /\ ~knowledge.claim.is_death
      /\ Len(knowledge.claim.persons) = 2
      /\ knowledge.know[1].search = "hit"
      /\ knowledge.know[1].spouse = "match" )
    => /\ verified.result.verdict = "likely_true"
       /\ verified.result.confidence = 70
       /\ Stances(verified.result) = {"supports"}

DeathCall == PersonCall /\ knowledge.claim.is_death

HasDeathDate(i) == knowledge.know[i].death = "date"

\* the resolved persons in claim order, and one sentence about each
ResolvedInOrder(keep(_)) ==
    SelectSeq([i \in 1..Len(Entities) |-> i], LAMBDA i : i \in Resolved /\ keep(i))

Sentences(kind, keep(_)) ==
    [j \in 1..Len(ResolvedInOrder(keep)) |-> Fact(kind, Entities[ResolvedInOrder(keep)[j]])]

\* C13: a death claim whose resolved persons all have a date-of-death fact is
\* likely_true with confidence 0.7 and corrected_info citing each date; with a
\* resolved person lacking the fact it is likely_false with confidence 0.85 and
\* corrected_info saying of each such person that they are not dead.  Spouse
\* answers play no part, also when the claim has relationship vocabulary.
C13_DeathClaims ==
    (Verified /\ DeathCall /\ Resolved # {}) =>
        IF \A i \in Resolved : HasDeathDate(i)
        THEN /\ verified.result.verdict = "likely_true"
             /\ verified.result.confidence = 70
             /\ verified.result.corrected_info = Sentences("died_on", LAMBDA i : TRUE)
        ELSE /\ verified.result.verdict = "likely_false"
             /\ verified.result.confidence = 85
             /\ verified.result.corrected_info =
                   Sentences("not_dead", LAMBDA i : ~HasDeathDate(i))

\* "A's wife B died": both have a date of death, and A's spouse list names
\* somebody else
C13_Witness ==
    /\ Verified
    /\ DeathCall
    /\ knowledge.claim.is_relationship
    /\ Resolved = {1, 2}
    /\ \A i \in Resolved : HasDeathDate(i)
    /\ knowledge.know[1].spouse = "nomatch"
    /\ verified.result.verdict = "likely_true"

\* what the lookups for entity i say, read off the knowledge source
Contradicts(i) ==
    IF ~PersonCall
    THEN IF FactLookup(i) \in {"match", "nomatch"} THEN FactLookup(i) = "nomatch"
         ELSE knowledge.know[i].extract # "mentions"
    ELSE IF knowledge.claim.is_death THEN ~HasDeathDate(i)
    ELSE IF knowledge.claim.is_relationship
    THEN Len(Entities) > 1 /\
         (IF FactLookup(i) \in {"match", "nomatch"} THEN FactLookup(i) = "nomatch"
          ELSE knowledge.know[i].extract # "mentions")
    ELSE knowledge.know[i].extract = "hoax"

Corroborates(i) == FactLookup(i) \in {"date", "match", "nomatch"}

\* C19: a verifier that resolved an entity decides from two flags: any
\* contradiction gives likely_false, 0.85, all entries contradicts; else any
\* corroborating fact gives likely_true, 0.7, all entries supports; else
\* unverified, 0.3, entries neutral.  One result never mixes stances, and it
\* has one entry per resolved entity.
C19_TwoFlagDecision ==
    (Verified /\ Resolved # {}) =>
        /\ ~verified.none
        /\ Len(verified.result.sources) = Cardinality(Resolved)
        /\ IF \E i \in Resolved : Contradicts(i)
           THEN /\ verified.result.verdict = "likely_false"
                /\ verified.result.confidence = 85
                /\ Stances(verified.result) = {"contradicts"}
           ELSE IF \E i \in Resolved : Corroborates(i)
           THEN /\ verified.result.verdict = "likely_true"
                /\ verified.result.confidence = 70
                /\ Stances(verified.result) = {"supports"}
           ELSE /\ verified.result.verdict = "unverified"
                /\ verified.result.confidence = 30
                /\ Stances(verified.result) = {"neutral"}

\* two organizations resolved, leaders found for one, the article of the other
\* names the person: likely_true with both entries tagged supports
C19_Witness ==
    /\ Verified
    /\ ~PersonCall
    /\ Resolved = {1, 2}
    /\ FactLookup(1) = "match"
    /\ FactLookup(2) = "none"
    /\ verified.result.verdict = "likely_true"
    /\ Len(verified.result.sources) = 2

(***************************************************************************)
(* The summary after an escalation (checked under SpecRisk)                *)
(***************************************************************************)
\* C16: when the hook changes the level, one reason naming the external
\* verdict is put in front of compute_risk's reasons, the summary gets the
\* lead sentence naming the verdict, and the summary returned states the final
\* level and closes with the recommendation for the returned risk_level.
C16_EscalatedSummary ==
    (HookDone /\ response.risk_level # risk_result.risk_level) =>
        /\ response.reasons =
              <<Reason("gemini", 0, UpperStrip(gemini_result.verdict))>> \o risk_result.reasons
        /\ response.summary.gemini = UpperStrip(gemini_result.verdict)
        /\ response.summary.level = response.risk_level
        /\ response.summary.closing = response.risk_level

(***************************************************************************)
(* Claims about the Verdict Synthesizer (checked under SpecSynth)          *)
(***************************************************************************)
Analyzed == pc = "analyzed" /\ all_sources # <<>>

Synthesized == checked_claims[1]

CScore == ContradictionScore(all_sources)

SScore == SupportScore(all_sources)

VerdictTable ==
    /\ Synthesized.verdict = "likely_false" <=> CScore > SScore
    /\ Synthesized.verdict = "likely_true" <=> SScore > CScore
    /\ Synthesized.verdict = "disputed" <=> (CScore = SScore /\ CScore > 0)
    /\ Synthesized.verdict = "unverified" <=> (CScore = 0 /\ SScore = 0)
    /\ Synthesized.verdict = "disputed" => Synthesized.confidence = 50
    /\ Synthesized.verdict = "unverified" => Synthesized.confidence = 30
    /\ Synthesized.confidence <= 100

Definitive == Synthesized.verdict \in {"likely_true", "likely_false"}

\* C17 as stated: the verdict table, and for a definitive verdict confidence
\* equal to max(score, opposite) / (sum of both)
C17_Original ==
    Analyzed =>
        /\ VerdictTable
        /\ Definitive => Synthesized.confidence * (CScore + SScore) = 100 * Max(CScore, SScore)

\* C17: the verdict is likely_false iff contradiction_score > support_score,
\* likely_true iff support_score > contradiction_score, disputed (0.5) iff they
\* are equal and nonzero, unverified (0.3) iff both are zero; a definitive
\* verdict's confidence is max(score, opposite) / (sum of both) rounded to two
\* decimal places, at most 1.0.
C17_VerdictOfScores ==
    Analyzed =>
        /\ VerdictTable
        /\ Definitive =>
              LET d == Synthesized.confidence * (CScore + SScore) - 100 * Max(CScore, SScore)
              IN  2 * d <= CScore + SScore /\ -2 * d <= CScore + SScore

\* contradiction 2.0 against support 1.0: likely_false with confidence 0.67
C17_Witness ==
    /\ Analyzed
    /\ CScore = 4
    /\ SScore = 2
    /\ Synthesized.verdict = "likely_false"
    /\ Synthesized.confidence = 67

\* C18: every item adds its trust weight to at most one of the two scores, so
\* the scores together are the weights of the items with a marker, each
\* counted once, and an item tagged contradicts adds nothing to support_score.
C18_OneScorePerItem ==
    Analyzed =>
        /\ CScore + SScore = WeightSum(all_sources, {"contra", "support", "both"})
        /\ SScore = WeightSum(SelectSeq(all_sources, LAMBDA src : StanceOf(src) = "supports"),
                              {"contra", "support", "both"})

(***************************************************************************)
(* Claims about extract_claims (checked under SpecExtract)                 *)
(***************************************************************************)
Extracted == pc = "extracted"

OverlapAtLeast(a, b, num) ==
    10 * Cardinality(a.words \cap b.words) >= num * Cardinality(a.words \cup b.words)

OverlapAbove(a, b, num) ==
    10 * Cardinality(a.words \cap b.words) > num * Cardinality(a.words \cup b.words)

\* C15 as stated: no two returned claims share 70% or more of their vocabulary
C15_Original ==
    Extracted =>
        \A i, j \in 1..Len(extracted) : i < j => ~OverlapAtLeast(extracted[i], extracted[j], 7)

\* C15: no two returned claims share more than 70% of their vocabulary (the
\* Jaccard overlap of every pair is at most 0.7), and on the sentence path the
\* first qualifying sentence is always kept as the first claim.
C15_NoNearDuplicates ==
    Extracted =>
        /\ \A i, j \in 1..Len(extracted) :
              i < j => ~OverlapAbove(extracted[i], extracted[j], 7)
        /\ LET qualifying == SelectSeq(extract_in.text.sentences, Qualifies)
           IN  (~FastPath(extract_in.text) /\ qualifying # <<>>) =>
                  /\ extracted[1].len = qualifying[1].len
                  /\ extracted[1].words = qualifying[1].words

\* three qualifying sentences: the second shares exactly 7 of 10 words with the
\* first and is kept, the third shares 8 of 10 and is dropped
C15_Witness ==
    /\ Extracted
    /\ ~FastPath(extract_in.text)
    /\ Len(SelectSeq(extract_in.text.sentences, Qualifies)) = 3
    /\ Len(extracted) = 2
    /\ extracted[1].words = 1..10
    /\ extracted[2].words = 1..7

(***************************************************************************)
(* The order of verifiers and providers (checked under SpecCC)             *)
(***************************************************************************)
VerifierCalls == {"org_role", "person"}

\* the claim whose calls consulted lists: the one at hand once its first stage
\* has run, the one before it until then
ConsultedClaim ==
    IF pc \in {"aggregate", "cc_done", "scored"} \/ claim_no = 0 THEN claim_no
    ELSE IF pc = FirstStage(CurrentClaim) THEN claim_no - 1
    ELSE claim_no

ClaimRecorded == ConsultedClaim >= 1 /\ ConsultedClaim = Len(checked_claims)

GatherStages ==
    {"person_wikipedia", "newsapi", "official_site", "govt_sites", "fact_check_sites",
     "wikipedia", "serper", "synthesize"}

\* C20: for every claim the verifiers are called before any search provider;
\* a likely_true or likely_false verifier result is the claim's verdict and no
\* provider is called for the claim; otherwise (every verifier that ran gave
\* unverified or nothing) the providers are called and the recorded verdict is
\* the one synthesized from the gathered evidence.
C20_VerifiersFirst ==
    /\ \A i, j \in 1..Len(consulted) :
          (i < j /\ consulted[j] \in VerifierCalls) => consulted[i] \in VerifierCalls
    /\ (ConsultedClaim >= 1 /\ consulted # <<>>) =>
          LET c == claims[ConsultedClaim]
          IN  /\ VerifierApplies(c) => consulted[1] \in VerifierCalls
              /\ OrgRoleApplies(c) => consulted[1] = "org_role"
              /\ (VerifierApplies(c) /\ \E i \in 1..Len(consulted) : consulted[i] \notin VerifierCalls)
                    => \E i \in 1..Len(consulted) : consulted[i] = "person"
    /\ (pc \in GatherStages /\ VerifierApplies(CurrentClaim)) =>
          verified.none \/ verified.result.verdict = "unverified"
    /\ ClaimRecorded =>
          LET r == checked_claims[ConsultedClaim]
          IN  IF \A i \in 1..Len(consulted) : consulted[i] \in VerifierCalls
              THEN /\ r.verdict \in {"likely_true", "likely_false"}
                   /\ ~verified.none
                   /\ r = verified.result
              ELSE /\ JustJudged
                   /\ r.verdict = _analyze_claim_against_sources(all_sources).verdict

\* "A is CEO of Org": both verifiers resolve the entity and return unverified,
\* the providers are called, and the evidence gives likely_true
C20_Witness ==
    /\ pc = "cc_done"
    /\ Len(consulted) >= 4
    /\ consulted[1] = "org_role"
    /\ consulted[2] = "person"
    /\ JustJudged
    /\ cc_result.claims[cc_result.claims_checked].verdict = "likely_true"
    /\ cc_result.claims[cc_result.claims_checked].confidence = 100

\* ---------------------------------------------------------------------------
\* Titles of the evidence gathered for one claim

\* the providers of the claim at hand have all been consulted
GatherDone == pc = "synthesize"

\* C21: the evidence list gathered for one claim never holds two items with
\* the same title, whichever providers they came from.
C21_TitlesDistinct ==
    GatherDone =>
        \A i, j \in 1..Len(all_sources) :
            i # j => all_sources[i].title # all_sources[j].title

\* ---------------------------------------------------------------------------
\* The order of the providers

\* the places a platform's items can take in the provider order: person pages
\* and the generic encyclopedia search both label their items "Wikipedia"
ProviderRanks(platform) ==
    CASE platform = "Wikipedia" -> {1, 6}
      [] platform = "NewsAPI" -> {2}
      [] platform = "Official Site" -> {3}
      [] platform = "Government/Official" -> {4}
      [] platform = "Fact-Check Site" -> {5}
      [] platform = "Google Search" -> {7}
      [] platform = "Google News" -> {8}

MinRank(platform) == CHOOSE r \in ProviderRanks(platform) : \A q \in ProviderRanks(platform) : r <= q

MaxRank(platform) == CHOOSE r \in ProviderRanks(platform) : \A q \in ProviderRanks(platform) : r >= q

PlatformsGathered == {all_sources[i].platform : i \in 1..Len(all_sources)}

\* C22: for one claim the providers are consulted in the fixed order person
\* pages, NewsAPI, official sites, government sites, fact-check sites,
\* Wikipedia, general search, news search; a provider that is disabled or
\* returns nothing neither stops nor reorders the later ones; every enabled
\* provider has been consulted when the evidence is synthesized, however much
\* was gathered; and the gathered list keeps its items in provider order.
C22_ProviderOrder ==
    /\ (ConsultedClaim >= 1 /\ consulted # <<>>) =>
          GatherCalls = Prefix(ExpectedCalls(claims[ConsultedClaim]), Len(GatherCalls))
    /\ GatherDone =>
          GatherCalls \o <<"verdict">> = ExpectedCalls(CurrentClaim)
    /\ (pc \in GatherStages /\ pc # GatherStart(CurrentClaim)) =>
          \A i, j \in 1..Len(all_sources) :
              i < j => MinRank(all_sources[i].platform) <= MaxRank(all_sources[j].platform)

\* NewsAPI and Wikipedia returned nothing; the five providers after NewsAPI
\* were consulted all the same and their items stand in provider order
C22_Witness ==
    /\ GatherDone
    /\ Len(GatherCalls) = 8
    /\ PlatformsGathered =
          {"Official Site", "Government/Official", "Fact-Check Site", "Google Search", "Google News"}
    /\ Len(all_sources) = 5

\* ---------------------------------------------------------------------------
\* Resolution of the organizations' official websites

QueryOrgs == {env.query.orgs[i] : i \in 1..Len(env.query.orgs)}

SitesResolved == pc # "resolve"

\* C23: the official website of each organization of the query is resolved
\* once, before any claim is processed, and the resolved sites are those used
\* for every claim: no claim has a verdict or a provider call while the sites
\* are unresolved, once they are resolved the number of resolution calls is
\* the number of distinct organizations of the query, however many claims
\* there are, and neither the count nor the resolved sites change afterwards.
C23_SitesResolvedOnce ==
    /\ [](~SitesResolved =>
             resolutions = 0 /\ checked_claims = <<>> /\ consulted = <<>> /\ claim_no = 0)
    /\ [](SitesResolved =>
             /\ resolutions = Cardinality(QueryOrgs)
             /\ \A i \in 1..Len(official_sites) : official_sites[i] \in QueryOrgs)
    /\ [][SitesResolved =>
             official_sites' = official_sites /\ resolutions' = resolutions]_vars

\* two claims were processed after the one resolution of the query's one
\* organization
C23_Witness ==
    /\ pc = "cc_done"
    /\ Len(checked_claims) = 2
    /\ official_sites = <<"Org">>
    /\ resolutions = 1

(***************************************************************************)
(* Trust tiers of one search hit: _get_source_tier, the providers that set *)
(* trust_tier themselves, and the tier the synthesizer weighs the hit with *)
(* (SpecTier).  Strings are sequences of one-character strings.            *)
(***************************************************************************)
\* cross_check.py 48-55
_TIER3_GOVT_DOMAINS ==
    { <<"g","o","v",".","i","n">>,
      <<"n","i","c",".","i","n">>,
      <<"p","i","b",".","g","o","v",".","i","n">>,
      <<".","g","o","v">>,
      <<".","g","o","v",".","u","k">>,
      <<".","g","o","v",".","a","u">>,
      <<"w","h","o",".","i","n","t">>,
      <<"u","n",".","o","r","g">>,
      <<"w","o","r","l","d","b","a","n","k",".","o","r","g">>,
      <<"s","e","c",".","g","o","v">>,
      <<"f","d","a",".","g","o","v">>,
      <<"c","d","c",".","g","o","v">>,
      <<"s","e","b","i",".","g","o","v",".","i","n">>,
      <<"r","b","i",".","o","r","g",".","i","n">>,
      <<"e","u","r","o","p","a",".","e","u">> }

\* cross_check.py 58-65
_TIER2_TRUSTED_DOMAINS ==
    { <<"r","e","u","t","e","r","s",".","c","o","m">>,
      <<"a","p","n","e","w","s",".","c","o","m">>,
      <<"b","b","c",".","c","o","m">>,
      <<"b","b","c",".","c","o",".","u","k">>,
      <<"s","n","o","p","e","s",".","c","o","m">>,
      <<"f","a","c","t","c","h","e","c","k",".","o","r","g">>,
      <<"p","o","l","i","t","i","f","a","c","t",".","c","o","m">>,
      <<"f","u","l","l","f","a","c","t",".","o","r","g">>,
      <<"w","i","k","i","p","e","d","i","a",".","o","r","g">>,
      <<"b","r","i","t","a","n","n","i","c","a",".","c","o","m">>,
      <<"n","y","t","i","m","e","s",".","c","o","m">>,
      <<"t","h","e","g","u","a","r","d","i","a","n",".","c","o","m">>,
      <<"w","a","s","h","i","n","g","t","o","n","p","o","s","t",".","c","o","m">>,
      <<"t","h","e","h","i","n","d","u",".","c","o","m">>,
      <<"n","d","t","v",".","c","o","m">>,
      <<"i","n","d","i","a","n","e","x","p","r","e","s","s",".","c","o","m">>,
      <<"n","a","t","u","r","e",".","c","o","m">>,
      <<"s","c","i","e","n","c","e","d","i","r","e","c","t",".","c","o","m">>,
      <<"p","u","b","m","e","d",".","n","c","b","i",".","n","l","m",".","n","i","h",".","g","o","v">> }

\* cross_check.py 68-73
_TIER1_NEWS_DOMAINS ==
    { <<"c","n","n",".","c","o","m">>,
      <<"a","l","j","a","z","e","e","r","a",".","c","o","m">>,
      <<"d","w",".","c","o","m">>,
      <<"f","r","a","n","c","e","2","4",".","c","o","m">>,
      <<"t","i","m","e","s","o","f","i","n","d","i","a",".","i","n","d","i","a","t","i","m","e","s",".","c","o","m">>,
      <<"h","i","n","d","u","s","t","a","n","t","i","m","e","s",".","c","o","m">>,
      <<"l","i","v","e","m","i","n","t",".","c","o","m">>,
      <<"m","o","n","e","y","c","o","n","t","r","o","l",".","c","o","m">>,
      <<"e","c","o","n","o","m","i","c","t","i","m","e","s",".","i","n","d","i","a","t","i","m","e","s",".","c","o","m">>,
      <<"c","n","b","c",".","c","o","m">>,
      <<"b","l","o","o","m","b","e","r","g",".","c","o","m">>,
      <<"f","o","r","b","e","s",".","c","o","m">> }

UpperLetters ==
    <<"A","B","C","D","E","F","G","H","I","J","K","L","M",
      "N","O","P","Q","R","S","T","U","V","W","X","Y","Z">>

LowerLetters ==
    <<"a","b","c","d","e","f","g","h","i","j","k","l","m",
      "n","o","p","q","r","s","t","u","v","w","x","y","z">>

\* str.lower
Lower(str) ==
    [i \in 1..Len(str) |->
        IF \E k \in 1..26 : UpperLetters[k] = str[i]
        THEN LowerLetters[CHOOSE k \in 1..26 : UpperLetters[k] = str[i]]
        ELSE str[i]]

\* `domain in url_lower`: domain occurs somewhere in the string
Contains(domain, str) ==
    \E k \in 0..(Len(str) - Len(domain)) : SubSeq(str, k + 1, k + Len(domain)) = domain

\* the tiers with a domain that occurs in the lower-cased url
Matches(tier, url) ==
    LET table == CASE tier = 3 -> _TIER3_GOVT_DOMAINS
                   [] tier = 2 -> _TIER2_TRUSTED_DOMAINS
                   [] tier = 1 -> _TIER1_NEWS_DOMAINS
    IN  \E domain \in table : Contains(domain, Lower(url))

_get_source_tier_LowestFirst(url) ==
    IF Matches(1, url) THEN 1
    ELSE IF Matches(2, url) THEN 2
    ELSE IF Matches(3, url) THEN 3
    ELSE 0

\* 76-88: the three tables are scanned in the order 3, 2, 1
_get_source_tier(url) ==
    IF Matches(3, url) THEN 3
    ELSE IF Matches(2, url) THEN 2
    ELSE IF Matches(1, url) THEN 1
    ELSE 0

\* urlparse(url).netloc: what stands between "//" after the scheme and the
\* next "/", "?" or "#"
Netloc(url) ==
    LET colons == {i \in 1..Len(url) : url[i] = ":"}
    IN  IF colons = {} THEN <<>>
        ELSE LET c == CHOOSE i \in colons : \A j \in colons : i <= j
                 rest == SubSeq(url, c + 1, Len(url))
             IN  IF Len(rest) < 2 \/ rest[1] # "/" \/ rest[2] # "/" THEN <<>>
                 ELSE LET host == SubSeq(rest, 3, Len(rest))
                          stops == {i \in 1..Len(host) : host[i] \in {"/", "?", "#"}}
                      IN  IF stops = {} THEN host
                          ELSE SubSeq(host, 1, (CHOOSE i \in stops : \A j \in stops : i <= j) - 1)

\* str.lstrip(chars): drops every leading character that is in chars
Lstrip(str, chars) ==
    LET kept == {i \in 1..Len(str) : str[i] \notin chars}
    IN  IF kept = {} THEN <<>>
        ELSE SubSeq(str, CHOOSE i \in kept : \A j \in kept : i <= j, Len(str))

\* 195-197: the tier _search_newsapi stores in the result
NewsapiTier(url) ==
    _get_source_tier(IF url = <<>> THEN <<>>
                     ELSE Lower(Lstrip(Netloc(url), {"w", "."})))

\* the providers that build result dicts from search hits
TierProviders ==
    {"newsapi", "official_site", "govt_sites", "fact_check_sites", "serper_general", "serper_news"}

\* "trust_tier" of the dict a provider builds for a hit: the NewsAPI tier
\* (205), 3 for official-site and government results (233, 262), and no key
\* (-1) for the other providers
IngestedTier(provider, url) ==
    CASE provider = "newsapi" -> NewsapiTier(url)
      [] provider \in {"official_site", "govt_sites"} -> 3
      [] OTHER -> -1

\* the urls of the hits
UrlMenu ==
    { \* a trusted outlet whose name starts with w
      <<"h","t","t","p","s",":","/","/","w","w","w",".","w","a","s","h","i","n","g","t","o","n","p","o","s","t",".","c","o","m","/","a">>,
      \* an international body whose name starts with w
      <<"h","t","t","p","s",":","/","/","w","h","o",".","i","n","t","/","a">>,
      \* a trusted outlet
      <<"h","t","t","p","s",":","/","/","w","w","w",".","b","b","c",".","c","o","m","/","a">>,
      \* the same in capitals
      <<"h","t","t","p","s",":","/","/","W","W","W",".","B","B","C",".","C","O","M","/","a">>,
      \* no listed domain
      <<"h","t","t","p","s",":","/","/","e","x","a","m","p","l","e",".","c","o","m","/","a">>,
      \* a news outlet
      <<"h","t","t","p","s",":","/","/","w","w","w",".","c","n","n",".","c","o","m","/","a">>,
      \* a regulator
      <<"h","t","t","p","s",":","/","/","w","w","w",".","s","e","c",".","g","o","v","/","a">>,
      \* a tier-2 domain that ends in .gov
      <<"h","t","t","p","s",":","/","/","p","u","b","m","e","d",".","n","c","b","i",".","n","l","m",".","n","i","h",".","g","o","v","/","1">>,
      \* a tier-1 host with a tier-2 domain in the path
      <<"h","t","t","p","s",":","/","/","w","w","w",".","c","n","n",".","c","o","m","/","b","b","c",".","c","o","m">>,
      \* a tier-3 domain in the path only
      <<"h","t","t","p","s",":","/","/","e","x","a","m","p","l","e",".","c","o","m","/","w","h","o",".","i","n","t">>,
      \* a hit without a url
      <<>> }

PipelineIdle ==
    /\ inp = NoRiskInput
    /\ risk_result = NoResult
    /\ hist = <<>>
    /\ gemini_result = NoGemini
    /\ response = NoResult
    /\ env = NoEnv
    /\ claims = <<>>
    /\ official_sites = <<>>
    /\ resolutions = 0
    /\ platforms_searched = <<>>
    /\ claim_no = 0
    /\ all_sources = <<>>
    /\ consulted = <<>>
    /\ failures = 0
    /\ checked_claims = <<>>
    /\ cc_result = NoCCResult

InitTier ==
    /\ pc = "ingest"
    /\ fetched \in [provider : TierProviders, url : UrlMenu, kw : {"support", "contra"}]
    /\ weighed = <<>>
    /\ knowledge = <<>>
    /\ verified = <<>>
    /\ extract_in = <<>>
    /\ extracted = <<>>
    /\ PipelineIdle

\* the provider builds the result dict of the hit
IngestHit ==
    /\ pc = "ingest"
    /\ weighed' = [ item |-> Item(fetched.provider, "T", fetched.kw,
                                  IngestedTier(fetched.provider, fetched.url),
                                  _get_source_tier(fetched.url)) ]
    /\ pc' = "weigh"
    /\ UNCHANGED <<riskVars, ccVars, knowledge, verified, extract_in, extracted, fetched>>

\* 1082-1084: the tier and the weight the synthesizer gives the item
WeighHit ==
    /\ pc = "weigh"
    /\ weighed' = [ item |-> weighed.item,
                    tier |-> TierOf(weighed.item),
                    weight |-> _get_trust_weight(TierOf(weighed.item)) ]
    /\ pc' = "weighed"
    /\ UNCHANGED <<riskVars, ccVars, knowledge, verified, extract_in, extracted, fetched>>

NextTier == IngestHit \/ WeighHit

SpecTier == InitTier /\ [][NextTier]_vars

(***************************************************************************)
(* Claims about the trust tiers (checked under SpecTier)                   *)
(***************************************************************************)
Weighed == pc = "weighed"

Classified == pc \in {"weigh", "weighed"}

\* C24: the classifier returns the highest tier one of whose domains occurs in
\* the url (3 before 2 before 1) and 0 when none does, and the weights of the
\* tiers 3, 2, 1, 0 are 3.0, 2.0, 1.5 and 1.0 (6, 4, 3 and 2 halves), strictly
\* increasing with the tier.
C24_HighestTierFirst ==
    /\ Classified =>
          LET tier == weighed.item.url_tier
          IN  /\ tier \in 0..3
              /\ tier > 0 => Matches(tier, fetched.url)
              /\ \A t \in 1..3 : Matches(t, fetched.url) => tier >= t
    /\ <<_get_trust_weight(0), _get_trust_weight(1), _get_trust_weight(2), _get_trust_weight(3)>>
          = <<2, 3, 4, 6>>
    /\ \A t, u \in 0..3 : t < u => _get_trust_weight(t) < _get_trust_weight(u)

\* a url with a tier-2 domain and a tier-3 domain is classified 3 and, coming
\* from a provider that sets no tier, weighed 3.0
C24_Witness ==
    /\ Weighed
    /\ Matches(2, fetched.url) /\ Matches(3, fetched.url)
    /\ weighed.item.trust_tier = -1
    /\ weighed.tier = 3
    /\ weighed.weight = 6

\* C25: the tier the synthesizer weighs an item with is the classifier's tier
\* of the item's url, except for official-site and government results, which
\* are always tier 3; a NewsAPI result on a tier-2 or tier-3 domain is weighed
\* with that domain's tier.
C25_TierIsUrlTier ==
    Weighed =>
        IF fetched.provider \in {"official_site", "govt_sites"}
        THEN weighed.tier = 3
        ELSE weighed.tier = _get_source_tier(fetched.url)

(***************************************************************************)
(* The synthesizer on evidence lists longer than the eight sources it      *)
(* retains (SpecSynthLong): up to MaxPadding neutral tier-3 items before   *)
(* or after up to MaxMarked items of tier 0 or 3 that carry keywords       *)
(***************************************************************************)
MaxPadding == 9

MaxMarked == 2

NeutralOfficial == Item("Government/Official", "G", "none", 3, 3)

MarkedItems ==
    { Item("Google Search", "S", kw, -1, 0) : kw \in {"contra", "support", "both"} }
    \cup { Item("Government/Official", "G", "support", 3, 3) }

LongEvidence ==
    UNION { { marked \o [i \in 1..k |-> NeutralOfficial],
              [i \in 1..k |-> NeutralOfficial] \o marked } :
            k \in 0..MaxPadding, marked \in SeqsUpTo(MarkedItems, MaxMarked) }

InitSynthLong ==
    /\ pc = "analyze_sources"
    /\ all_sources \in LongEvidence
    /\ checked_claims = <<>>
    /\ UnitIdle
    /\ inp = NoRiskInput
    /\ risk_result = NoResult
    /\ hist = <<>>
    /\ gemini_result = NoGemini
    /\ response = NoResult
    /\ env = NoEnv
    /\ claims = <<>>
    /\ official_sites = <<>>
    /\ resolutions = 0
    /\ platforms_searched = <<>>
    /\ claim_no = 0
    /\ consulted = <<>>
    /\ failures = 0
    /\ cc_result = NoCCResult

SpecSynthLong == InitSynthLong /\ [][NextSynth]_vars

\* C27: every verdict of the synthesizer is backed by the sources it retains:
\* likely_false and disputed come with a retained source tagged contradicts,
\* likely_true with one tagged supports, also when the evidence list is longer
\* than the eight sources retained after the sort by tier.
C27_VerdictBacked ==
    Analyzed =>
        /\ Synthesized.verdict \in {"likely_false", "disputed"} =>
              "contradicts" \in Stances(Synthesized)
        /\ Synthesized.verdict = "likely_true" => "supports" \in Stances(Synthesized)

\* ---------------------------------------------------------------------------
\* Order of the evidence (checked under SpecSynth)

\* the evidence list in the order f
Reordered(f) == [i \in 1..Len(all_sources) |-> all_sources[f[i]]]

\* C28: the synthesizer's verdict and confidence do not depend on the order of
\* the evidence list: every reordering of the list gives the verdict and the
\* confidence the list gave, and a second call on the same list gives the
\* same result.
C28_OrderIndependent ==
    Analyzed =>
        /\ \A f \in Reorderings(Len(all_sources)) :
              LET r == _analyze_claim_against_sources(Reordered(f))
              IN  r.verdict = Synthesized.verdict /\ r.confidence = Synthesized.confidence
        /\ _analyze_claim_against_sources(all_sources) = Synthesized

\* three items of three tiers, the lowest first, one contradicting and two
\* supporting: likely_true at 0.6 in every order
C28_Witness ==
    /\ Analyzed
    /\ Len(all_sources) = 3
    /\ TierOf(all_sources[1]) < TierOf(all_sources[2])
    /\ TierOf(all_sources[2]) < TierOf(all_sources[3])
    /\ all_sources[1].kw = "support"
    /\ all_sources[2].kw = "contra"
    /\ all_sources[3].kw = "support"
    /\ Synthesized.verdict = "likely_true"
    /\ Synthesized.confidence < 100

\* ---------------------------------------------------------------------------
\* Organization-role verification and person verification (under SpecCC)

CallsOf(call) == {i \in 1..Len(consulted) : consulted[i] = call}

\* C29: for a claim with person names, relationship or event vocabulary, role
\* vocabulary and an organization, organization-role verification runs before
\* person verification; when it returns likely_true or likely_false that is
\* the claim's verdict and person verification is not run; person
\* verification runs only when organization-role verification was not
\* triggered or returned unverified or nothing.
C29_OrgRoleBeforePerson ==
    /\ (ConsultedClaim >= 1 /\ consulted # <<>>) =>
          LET c == claims[ConsultedClaim]
          IN  /\ Cardinality(CallsOf("org_role")) <= 1
              /\ Cardinality(CallsOf("person")) <= 1
              /\ OrgRoleApplies(c) <=> CallsOf("org_role") = {1}
              /\ CallsOf("person") # {} =>
                    /\ VerifierApplies(c)
                    /\ CallsOf("person") = (IF OrgRoleApplies(c) THEN {2} ELSE {1})
    /\ (pc = "person" /\ OrgRoleApplies(CurrentClaim)) =>
          /\ consulted = <<"org_role">>
          /\ verified.none \/ verified.result.verdict = "unverified"
    /\ (ClaimRecorded /\ consulted = <<"org_role">>) =>
          /\ ~verified.none
          /\ verified.result.verdict \in {"likely_true", "likely_false"}
          /\ checked_claims[ConsultedClaim] = verified.result

\* "A is CEO of Org" with another leader on record: the organization-role
\* verifier alone was called and its likely_false is the returned verdict
C29_Witness ==
    /\ pc = "cc_done"
    /\ consulted = <<"org_role">>
    /\ OrgRoleApplies(claims[Len(claims)])
    /\ cc_result.claims[cc_result.claims_checked].verdict = "likely_false"

\* ---------------------------------------------------------------------------
\* The reliability label in the composed pipeline (under SpecCC)

Scored == pc = "scored"

LabelWarns == cc_result.overall_reliability \in {"unreliable", "questionable"}

\* C26: in every result of cross_check_content, the label unreliable or
\* questionable comes with at least one likely_false or disputed claim, so
\* compute_risk on that result returns HIGH, set by the per-claim override
\* before the label is looked at: the label's own branches add no reason and
\* decide nothing, and a questionable result is never LOW or MEDIUM.
C26_LabelNeverDecides ==
    /\ (ResultReturned /\ LabelWarns) =>
          \E i \in 1..Len(cc_result.claims) : cc_result.claims[i].verdict \in FalseVerdicts
    /\ (Scored /\ LabelWarns) =>
          /\ risk_result.risk_level = "HIGH"
          /\ hist[2] = "HIGH"
          /\ ReasonKinds(risk_result.reasons) = {"claim"}

\* two claims, one of them refuted by the knowledge source: questionable, and
\* HIGH although sentiment, similarity and trust are all benign
C26_Witness ==
    /\ Scored
    /\ cc_result.overall_reliability = "questionable"
    /\ inp.sentiment.negative = 0
    /\ inp.source_trust_score = 100
    /\ risk_result.risk_level = "HIGH"

\* ---------------------------------------------------------------------------
\* The reasons of compute_risk (checked under SpecRisk)

CrossCheckKinds == {"claim", "unreliable"}

FiredMediumKinds ==
    {k \in MediumKinds :
        \/ k = "medium_negative" /\ inp.sentiment.negative > 30
        \/ k = "medium_similarity" /\ inp.similarity_score > 40
        \/ k = "medium_trust" /\ inp.source_trust_score < 60}

\* C30: the reasons compute_risk returns are never empty: a HIGH result has a
\* cross-check reason or a HIGH-threshold reason, a MEDIUM result a
\* MEDIUM-threshold reason, a LOW result the credible-sources reason; and the
\* level is LOW only if no HIGH or MEDIUM threshold condition holds and no
\* claim is likely_false or disputed.
C30_ReasonsNeverEmpty ==
    BaseReturned =>
        LET kinds == ReasonKinds(risk_result.reasons)
        IN  /\ risk_result.reasons # <<>>
            /\ risk_result.risk_level = "HIGH" =>
                  kinds \cap (CrossCheckKinds \cup HighKinds) # {}
            /\ risk_result.risk_level = "MEDIUM" => kinds \cap MediumKinds # {}
            /\ risk_result.risk_level = "LOW" =>
                  /\ "credible" \in kinds
                  /\ FiredHighKinds = {}
                  /\ FiredMediumKinds = {}
                  /\ NumFalse = 0

\* an unreliable label with no refuted claim and benign numbers: HIGH, with
\* the label's sentence as the only reason
C30_Witness ==
    /\ BaseReturned
    /\ inp.cross_check.present
    /\ inp.cross_check.overall_reliability = "unreliable"
    /\ NumFalse = 0
    /\ FiredHighKinds = {}
    /\ risk_result.risk_level = "HIGH"
    /\ ReasonKinds(risk_result.reasons) = {"unreliable"}

====
